---- MODULE Spec2Model ----
(***************************************************************************)
(* Rate limiting, retry and session persistence of the scraping scripts    *)
(* (LinkedIn, Twitter, Instagram, Facebook).  The scripts are independent  *)
(* programs: a run executes exactly one of them, chosen by `script`.       *)
(* Times are whole seconds.                                                *)
(***************************************************************************)
EXTENDS Integers, Sequences, FiniteSets, TLC

VARIABLES
    script,                 \* which of the independent scripts this run executes
    \* ---- LinkedInScraper (linkedin_scraper.py)
    li_now,                 \* time.time() as last observed by the script
    li_max_requests_per_hour,
    li_has_request_times,   \* hasattr(self, 'request_times')
    li_request_times,
    li_last_request_time,
    li_request_count,
    li_calls,               \* number of _rate_limit calls made
    li_recorded,            \* every slot ever appended, in order
    li_blocked,             \* the last _rate_limit call slept at the ceiling
    li_t0,                  \* current_time of the last call
    li_oldest,              \* request_times[0] seen by the last call at the ceiling
    li_sleep,               \* sleep_time computed at the ceiling by the last call
    li_raised,              \* the last call raised (IndexError)
    li_min_delay,           \* config "min_delay"
    li_max_delay,           \* config "max_delay"
    \* ---- LinkedInScraper: session persistence
    li_file_exists,         \* os.path.exists(self.session_file)
    li_file,                \* the content of linkedin_session.pkl
    li_linkedin,            \* self.linkedin
    li_ops,                 \* number of session operations made
    li_op,                  \* the last session operation called
    li_ret,                 \* what it returned
    li_path,                \* how authenticate went: "stored", "fresh", ...
    li_faults,              \* the failures met by the last operation
    li_propagated,          \* the last operation let an exception escape
    li_before,              \* the session file when the last operation started
    li_stored,              \* the file is a complete pickle written by _save_session
    li_was_stored,          \* li_stored when the last operation started
    li_status,              \* what the last health_check returned
    \* ---- TwitterScraper (twitter_scraper.py)
    tw_now,                 \* time.time() as last observed by the script
    tw_max_requests_per_hour,
    tw_retry_attempts,      \* config "retry_attempts"
    tw_request_count,
    tw_last_request_time,
    tw_calls,               \* number of rate_limit_delay calls made
    tw_runs,                \* number of handle_errors calls made
    tw_permits,             \* the times at which rate_limit_delay returned
    tw_outcomes,            \* what func did on each invocation of the last handle_errors
    tw_run,                 \* what the last handle_errors call did
    tw_tasks,               \* the coroutines running handle_errors concurrently
    \* ---- FacebookScraper (run_fb_scraper.py)
    fb_retry_attempts,      \* config.retry_attempts
    fb_retry_backoff,       \* config.retry_backoff
    fb_health,              \* HealthMonitor: successful_requests, failed_requests
    fb_runs,                \* number of _handle_request_with_retry calls made
    fb_outcomes,            \* what func did on each invocation of the last call
    fb_run,                 \* what the last _handle_request_with_retry call did
    fb_now,                 \* datetime.now() as last observed by the script
    fb_invocations,         \* invocations of wrapped operations made so far
    fb_returned,            \* wrapper calls that returned a result so far
    fb_succ_calls,          \* record_success calls made outside the wrapper
    fb_fail_calls,          \* record_failure calls made outside the wrapper
    fb_reports,             \* number of get_stats / log_health_report calls made
    fb_op,                  \* the last HealthMonitor method called directly
    fb_stats,               \* what the last get_stats returned
    fb_logged,              \* the last line log_health_report wrote
    fb_seen,                \* the record calls made when fb_stats was computed
    hm_pc,                  \* where each worker is in record_success / record_failure
    hm_tmp,                 \* the counter value each worker has read
    hm_started,             \* record calls the workers have started, per kind
    fb_job,                 \* main() of run_fb_scraper.py: its position and what it did
    px,                     \* ProxyManager and what its last get_next_proxy did
    \* ---- RedditCollector, YouTubeCollector (social_media_collector.py)
    sm,                     \* the database and what the last collect call did
    db_manager,             \* DatabaseManager: the tables of social_media_data.db
    \* ---- InstagramScraper (instagram_scraper.py): handle_rate_limit
    ig_runs,                \* number of handle_rate_limit calls made
    ig_outcomes,            \* what func did on each invocation of the last call
    ig_run,                 \* what the last handle_rate_limit call did
    \* ---- InstagramScraper: session persistence
    ig_file_exists,         \* Path(self.session_file).exists()
    ig_file,                \* the content of the session file
    ig_settings,            \* the settings held by self.client
    ig_logged_in,           \* self.logged_in
    ig_ops,                 \* number of session operations made
    ig_op,                  \* the last session operation called
    ig_ret,                 \* what it returned
    ig_installed,           \* the blobs load_session passed to set_settings in it
    ig_saved,               \* the blob written by the last successful save_session
    ig_fresh,               \* ig_saved was written and no clear_session ran since
    ig_was_fresh,           \* ig_fresh when the last operation started
    ig_faults,              \* the failures met by the last operation
    ig_path,                \* how login went: "stored" or "fresh"
    ig_propagated,          \* the last operation let an exception escape
    ig_before,              \* the session file when the last operation started
    ig_authed,              \* a login has succeeded, no logout or clear_session since
    ig_fetch                \* what the last fetch method called did

li_vars == <<li_now, li_max_requests_per_hour, li_has_request_times,
             li_request_times, li_last_request_time, li_request_count,
             li_calls, li_recorded, li_blocked, li_t0, li_oldest, li_sleep,
             li_raised, li_min_delay, li_max_delay>>

li_session_vars == <<li_file_exists, li_file, li_linkedin, li_ops, li_op,
                     li_ret, li_path, li_faults, li_propagated, li_before,
                     li_stored, li_was_stored>>

tw_vars == <<tw_now, tw_max_requests_per_hour, tw_retry_attempts,
             tw_request_count, tw_last_request_time, tw_calls, tw_runs,
             tw_permits, tw_outcomes, tw_run>>

fb_vars == <<fb_retry_attempts, fb_retry_backoff, fb_health, fb_runs,
             fb_outcomes, fb_run, fb_now, fb_invocations, fb_returned,
             fb_succ_calls, fb_fail_calls, fb_reports, fb_op, fb_stats,
             fb_logged, fb_seen>>

hm_vars == <<hm_pc, hm_tmp, hm_started>>

ig_retry_vars == <<ig_runs, ig_outcomes, ig_run>>

ig_session_vars == <<ig_file_exists, ig_file, ig_settings, ig_logged_in,
                     ig_ops, ig_op, ig_ret, ig_installed, ig_saved, ig_fresh,
                     ig_was_fresh, ig_faults, ig_path, ig_propagated,
                     ig_before, ig_authed>>

ig_vars == <<ig_retry_vars, ig_session_vars, ig_fetch>>

li_all == <<li_vars, li_session_vars>>

job_vars == <<fb_job, sm>>

part_vars == <<li_status, tw_tasks, px, db_manager>>

vars == <<script, part_vars, li_all, tw_vars, fb_vars, hm_vars, job_vars,
          ig_vars>>

Scripts == {"linkedin", "twitter", "facebook", "instagram"}

\* ---------------------------------------------------------------- bounds
MaxCalls == 4
MaxLimit == 2
ClockStart == 10000
MaxAttempts == 3
MaxRuns == 1
MaxOps == 3
MaxRecords == 3
MaxReports == 2
MaxWorkers == 2
MaxWorkerCalls == 2
MaxItems == 1
MaxTargets == 2
MaxProxies == 2
MaxIds == 2
FbMaxRuns == 2

\* ---------------------------------------------------------------- helpers
Last(s) == s[Len(s)]

\* random.uniform(lo, hi): the two ends of the interval
Uniform(lo, hi) == {lo, hi}

\* number of slots of `slots` inside the trailing window (end - w, end]
InWindow(slots, end, w) ==
    Cardinality({i \in 1..Len(slots) : slots[i] <= end /\ end - slots[i] < w})

\* the configurations a run of script `s` can start with; the scripts that do
\* not run keep one fixed value
Config(s, values, idle) == IF script = s THEN values ELSE {idle}

\* what one invocation of a wrapped operation does: it returns, or it raises
\* an error of one of the kinds of the error taxonomy
Errors == {"Transient", "Fatal"}
Outcomes == {"ok"} \cup Errors

\* the invocations a wrapper can observe: the outcomes up to the first success
FirstOk(outcomes) ==
    LET oks == {i \in DOMAIN outcomes : outcomes[i] = "ok"}
    IN  IF oks = {} THEN 0 ELSE CHOOSE i \in oks : \A j \in oks : i <= j
Observable(outcomes) ==
    IF FirstOk(outcomes) = 0 THEN outcomes
    ELSE SubSeq(outcomes, 1, FirstOk(outcomes))

\* the record of one call of a retry wrapper
NoRun == [calls |-> 0, sleeps |-> <<>>, trace |-> <<>>, result |-> "none",
          error |-> "none", from |-> 0]

RECURSIVE Pow2(_)
Pow2(n) == IF n <= 0 THEN 1 ELSE 2 * Pow2(n - 1)

\* ================================================================ LinkedIn
LiHour == 3600
LiMinDelay == 5
LiMaxDelay == 10

\* time that passes between the end of one call and the start of the next
LiGaps == {0, LiHour \div 2, LiHour - LiMinDelay, LiHour}
\* time.sleep may return late
Overshoot == {0, 1}

\* [t for t in self.request_times if current_time - t < 3600]
Purge(times, current_time) ==
    SelectSeq(times, LAMBDA t : current_time - t < LiHour)

AtCeilingOff(kept, max) == Len(kept) > max
\* len(self.request_times) >= self.max_requests_per_hour
AtCeiling(kept, max) == Len(kept) >= max

CeilingSleepNewest(kept, current_time) == LiHour - (current_time - Last(kept))
\* 3600 - (current_time - self.request_times[0])
CeilingSleep(kept, current_time) == LiHour - (current_time - kept[1])

\* LinkedInScraper.__init__ with the limits and delay ranges of `limits` and
\* `ranges` to read from config.json
\* no health_check made
NoStatus == [authenticated |-> FALSE, total_requests |-> 0,
             last_request_time |-> 0, session_file_exists |-> FALSE,
             timestamp |-> 0, has_requests_last_hour |-> FALSE,
             requests_last_hour |-> 0]

LI_InitWith(limits, ranges) ==
    /\ li_status = NoStatus
    /\ li_now = ClockStart
    /\ li_max_requests_per_hour \in Config("linkedin", limits, 1)
    /\ \E r \in Config("linkedin", ranges, <<LiMinDelay, LiMaxDelay>>) :
          /\ li_min_delay = r[1]
          /\ li_max_delay = r[2]
    /\ li_has_request_times = FALSE
    /\ li_request_times = <<>>
    /\ li_last_request_time = 0
    /\ li_request_count = 0
    /\ li_calls = 0
    /\ li_recorded = <<>>
    /\ li_blocked = FALSE
    /\ li_t0 = 0
    /\ li_oldest = 0
    /\ li_sleep = 0
    /\ li_raised = FALSE

LI_Init == LI_InitWith(1..MaxLimit, {<<LiMinDelay, LiMaxDelay>>})

\* config.json may hold any numbers: limits that are not positive, and a
\* min_delay above max_delay
DegenerateLimits == {-1, 0}
DegenerateRanges == {<<LiMaxDelay, LiMinDelay>>}

\* LinkedInScraper._rate_limit
LI_rate_limit ==
    /\ script = "linkedin"
    /\ li_calls < MaxCalls
    /\ li_ops = 0
    /\ UNCHANGED <<li_min_delay, li_max_delay>>
    /\ \E gap \in LiGaps, delay \in Uniform(li_min_delay, li_max_delay), over \in Overshoot :
        LET current_time == li_now + gap
            kept == IF li_has_request_times
                    THEN Purge(li_request_times, current_time)
                    ELSE <<>>
            ceiling == li_has_request_times
                       /\ AtCeiling(kept, li_max_requests_per_hour)
        IN  /\ li_calls' = li_calls + 1
            /\ li_t0' = current_time
            /\ li_has_request_times' = TRUE
            /\ UNCHANGED li_max_requests_per_hour
            /\ IF ceiling /\ kept = <<>>
               THEN \* self.request_times[0] on an empty list: IndexError
                    /\ over = 0
                    /\ li_raised' = TRUE
                    /\ li_request_times' = kept
                    /\ li_now' = current_time
                    /\ li_blocked' = FALSE
                    /\ UNCHANGED <<li_last_request_time, li_request_count,
                                   li_recorded, li_oldest, li_sleep>>
               ELSE LET sleep_time == IF ceiling
                                      THEN CeilingSleep(kept, current_time)
                                      ELSE 0
                        woke == current_time + sleep_time
                                + (IF ceiling THEN over ELSE 0)
                        time_since_last == current_time - li_last_request_time
                        sleep2 == IF li_last_request_time # 0
                                     /\ time_since_last < delay
                                  THEN delay - time_since_last
                                  ELSE 0
                        t_new == woke + sleep2
                    IN  /\ (~ceiling => over = 0)
                        /\ li_raised' = FALSE
                        /\ li_blocked' = ceiling
                        /\ li_oldest' = IF ceiling THEN kept[1] ELSE 0
                        /\ li_sleep' = sleep_time
                        /\ li_now' = t_new
                        /\ li_last_request_time' = t_new
                        /\ li_request_count' = li_request_count + 1
                        /\ li_request_times' = Append(kept, t_new)
                        /\ li_recorded' = Append(li_recorded, t_new)

\* ---------------------------------------------------------------- session
\* the cookie jars a logged-in client can hold
Cookies == {"c1", "c2"}
\* self.linkedin = None
NoLinkedin == [cookies |-> "None"]
\* a Linkedin instance whose client session holds `cookies`
Linkedin(cookies) == [cookies |-> cookies]

\* pickle.dump(cookies, f): the bytes written
PickleDump(cookies) == <<"pickle", cookies>>
\* pickle.load(f) of such bytes
PickleLoad(bytes) == bytes[2]

\* a file that was written completely, and one cut off in the middle of a
\* write (open(..., 'wb') truncates it before the first byte is written)
LiWritten(bytes) == [complete |-> TRUE, bytes |-> bytes]
LiUnreadable == [complete |-> FALSE, bytes |-> <<>>]

\* the session state the methods work on
LiState == [file_exists |-> li_file_exists, file |-> li_file,
            linkedin |-> li_linkedin, stored |-> li_stored,
            faults |-> {}, propagated |-> FALSE, path |-> "none",
            ret |-> "None"]

\* LinkedInScraper._save_session; io says how far the write gets: "crash" is
\* the process stopping between open() and the end of pickle.dump
LiSaveSession(st, io) ==
    IF st.linkedin = NoLinkedin
    THEN [st EXCEPT !.ret = "None"]
    ELSE IF io = "open_fails"
    THEN [st EXCEPT !.faults = @ \cup {"open"}, !.ret = "None"]
    ELSE IF io = "write_fails"
    THEN [st EXCEPT !.file_exists = TRUE, !.file = LiUnreadable,
                    !.stored = FALSE, !.faults = @ \cup {"write"},
                    !.ret = "None"]
    ELSE IF io = "crash"
    THEN [st EXCEPT !.file_exists = TRUE, !.file = LiUnreadable,
                    !.stored = FALSE, !.ret = "crashed"]
    ELSE [st EXCEPT !.file_exists = TRUE,
                    !.file = LiWritten(PickleDump(st.linkedin.cookies)),
                    !.stored = TRUE, !.ret = "None"]

LiLoadCatchesNoRemove(e) == e # "remove"
\* except Exception as e (the outer handler of _load_session)
LiLoadCatches(e) == TRUE

\* an exception `e` raised inside the outer try block of _load_session
LiLoadRaise(st, e) ==
    IF LiLoadCatches(e)
    THEN [st EXCEPT !.faults = @ \cup {e}, !.ret = "False"]
    ELSE [st EXCEPT !.faults = @ \cup {e}, !.propagated = TRUE,
                    !.ret = "raised"]

\* LinkedInScraper._load_session; read says whether the file can be opened,
\* ctor what Linkedin('', '', refresh_cookies=True) does, probe what
\* get_profile('linkedin') does, remove what os.remove does
LiLoadSession(st, read, ctor, probe, remove) ==
    IF ~st.file_exists
    THEN [st EXCEPT !.ret = "None"]
    ELSE IF read = "read_fails"
    THEN LiLoadRaise(st, "read")
    ELSE IF ~st.file.complete
    THEN LiLoadRaise(st, "unpickle")
    ELSE IF ctor = "raises"
    THEN LiLoadRaise(st, "constructor")
    ELSE LET st1 == [st EXCEPT
                       !.linkedin = Linkedin(PickleLoad(st.file.bytes))]
         IN  IF probe = "ok"
             THEN [st1 EXCEPT !.ret = "True"]
             ELSE LET st2 == [st1 EXCEPT !.faults = @ \cup {"probe"}]
                  IN  IF remove = "remove_fails"
                      THEN LiLoadRaise(st2, "remove")
                      ELSE [st2 EXCEPT !.file_exists = FALSE,
                                       !.stored = FALSE,
                                       !.ret = "False"]

\* LinkedInScraper.authenticate; creds says whether a username and a password
\* are at hand, login what Linkedin(username, password) does, cookies the
\* cookie jar of the new client, io how far _save_session gets
LiAuthenticate(st, read, ctor, probe, remove, creds, login, cookies, io) ==
    LET loaded == LiLoadSession(st, read, ctor, probe, remove)
    IN  IF loaded.propagated
        THEN loaded
        ELSE IF loaded.ret = "True"
        THEN [loaded EXCEPT !.path = "stored"]
        ELSE IF creds = "missing"
        THEN [loaded EXCEPT !.path = "no_credentials", !.ret = "False"]
        ELSE IF login = "login_fails"
        THEN [loaded EXCEPT !.path = "fresh", !.ret = "False"]
        ELSE LET saved == LiSaveSession(
                             [loaded EXCEPT !.linkedin = Linkedin(cookies)], io)
             IN  [saved EXCEPT !.path = "fresh",
                               !.ret = IF saved.ret = "crashed"
                                       THEN "crashed" ELSE "True"]

LI_SessionInit ==
    /\ li_file_exists = FALSE
    /\ li_file = LiUnreadable
    /\ li_linkedin = NoLinkedin
    /\ li_ops = 0
    /\ li_op = "none"
    /\ li_ret = "None"
    /\ li_path = "none"
    /\ li_faults = {}
    /\ li_propagated = FALSE
    /\ li_before = [exists |-> FALSE, file |-> LiUnreadable]
    /\ li_stored = FALSE
    /\ li_was_stored = FALSE

LI_Install(op, st) ==
    /\ li_file_exists' = st.file_exists
    /\ li_file' = IF st.file_exists THEN st.file ELSE LiUnreadable
    /\ li_linkedin' = st.linkedin
    /\ li_ops' = li_ops + 1
    /\ li_op' = op
    /\ li_ret' = st.ret
    /\ li_path' = st.path
    /\ li_faults' = st.faults
    /\ li_propagated' = st.propagated
    /\ li_before' = [exists |-> li_file_exists, file |-> li_file]
    /\ li_stored' = st.stored
    /\ li_was_stored' = li_stored

\* a session operation can be called: the script runs, its process is alive
\* and the rate limiter has not been used
LI_SessionReady ==
    /\ script = "linkedin"
    /\ li_calls = 0
    /\ li_ops < MaxOps

\* LinkedInScraper.__init__ of a new run: the session file of earlier runs
\* stays on disk
LI_init ==
    /\ LI_SessionReady
    /\ li_ops > 0
    /\ LI_Install("__init__", [LiState EXCEPT !.linkedin = NoLinkedin])

LI_save_session ==
    /\ LI_SessionReady
    /\ li_ret # "crashed"
    /\ \E io \in {"ok", "open_fails", "write_fails", "crash"} :
        /\ (li_linkedin = NoLinkedin => io = "ok")
        /\ LI_Install("_save_session", LiSaveSession(LiState, io))

\* the inputs _load_session consumes in the current state
LiReadInputs == IF li_file_exists THEN {"ok", "read_fails"} ELSE {"ok"}
LiReads(read) == li_file_exists /\ read = "ok" /\ li_file.complete
LiCtorInputs(read) == IF LiReads(read) THEN {"ok", "raises"} ELSE {"ok"}
LiProbeInputs(read, ctor) ==
    IF LiReads(read) /\ ctor = "ok" THEN {"ok", "probe_fails"} ELSE {"ok"}
LiRemoveInputs(read, ctor, probe) ==
    IF LiReads(read) /\ ctor = "ok" /\ probe = "probe_fails"
    THEN {"ok", "remove_fails"}
    ELSE {"ok"}

LI_load_session ==
    /\ LI_SessionReady
    /\ li_ret # "crashed"
    /\ \E read \in LiReadInputs :
        \E ctor \in LiCtorInputs(read) :
            \E probe \in LiProbeInputs(read, ctor) :
                \E remove \in LiRemoveInputs(read, ctor, probe) :
                    LI_Install("_load_session",
                               LiLoadSession(LiState, read, ctor, probe, remove))

LI_authenticate ==
    /\ LI_SessionReady
    /\ li_ret # "crashed"
    /\ \E read \in LiReadInputs :
        \E ctor \in LiCtorInputs(read) :
            \E probe \in LiProbeInputs(read, ctor) :
                \E remove \in LiRemoveInputs(read, ctor, probe) :
                    IF LiReads(read) /\ ctor = "ok" /\ probe = "ok"
                    THEN LI_Install("authenticate",
                                    LiAuthenticate(LiState, read, ctor, probe,
                                                   remove, "given", "ok", "c1",
                                                   "ok"))
                    ELSE \/ \E creds \in {"missing", "given"} :
                              LI_Install("authenticate",
                                         LiAuthenticate(LiState, read, ctor,
                                                        probe, remove, creds,
                                                        "login_fails", "c1",
                                                        "ok"))
                         \/ \E cookies \in Cookies,
                               io \in {"ok", "open_fails", "write_fails", "crash"} :
                              LI_Install("authenticate",
                                         LiAuthenticate(LiState, read, ctor,
                                                        probe, remove, "given",
                                                        "ok", cookies, io))

\* LinkedInScraper.health_check at time `now`: the dict returned; the key
\* 'requests_last_hour' is set only when the attribute request_times exists
HealthCheck(now) ==
    [authenticated |-> li_linkedin # NoLinkedin,
     total_requests |-> li_request_count,
     last_request_time |-> li_last_request_time,
     session_file_exists |-> li_file_exists,
     timestamp |-> now,
     has_requests_last_hour |-> li_has_request_times,
     requests_last_hour |-> IF li_has_request_times
                            THEN Len(li_request_times) ELSE 0]

\* one call of LinkedInScraper.health_check, some time after the last call
LI_health_check ==
    /\ script = "linkedin"
    /\ \E gap \in LiGaps :
        /\ li_status' = HealthCheck(li_now + gap)
        /\ li_now' = li_now + gap
    /\ UNCHANGED <<li_max_requests_per_hour, li_has_request_times,
                   li_request_times, li_last_request_time, li_request_count,
                   li_calls, li_recorded, li_blocked, li_t0, li_oldest,
                   li_sleep, li_raised, li_min_delay, li_max_delay>>
    /\ UNCHANGED <<tw_tasks, px, db_manager>>

\* ================================================================ Twitter
TwHour == 3600
TwMinDelay == 5
TwMaxDelay == 10
TwRetryDelay == 30

TwGaps == {0, TwHour}

\* the state rate_limit_delay works on
TwState == [now |-> tw_now, request_count |-> tw_request_count,
            last_request_time |-> tw_last_request_time,
            calls |-> tw_calls, permits |-> tw_permits]

\* TwitterScraper.rate_limit_delay, called at time st.now
RateLimitDelay(st, max, delay) ==
    LET current_time == st.now
        wait == st.request_count >= max
                /\ current_time - st.last_request_time < TwHour
        wait_time == IF wait
                     THEN TwHour - (current_time - st.last_request_time)
                     ELSE 0
        count == IF wait THEN 0 ELSE st.request_count
        done == current_time + wait_time + delay
    IN  [now |-> done,
         request_count |-> count + 1,
         last_request_time |-> current_time,
         calls |-> st.calls + 1,
         permits |-> Append(st.permits, done)]

\* TwitterScraper.handle_errors from attempt `attempt` (0-based) on:
\* the final rate limiter state and the record of the call
RECURSIVE HandleErrors(_, _, _, _, _, _)
HandleErrors(st, run, attempt, n, outcomes, delay) ==
    IF attempt >= n
    THEN [st |-> st, run |-> [run EXCEPT !.result = "None"]]
    ELSE LET st1 == RateLimitDelay(st, tw_max_requests_per_hour, delay)
             o == outcomes[attempt + 1]
             run1 == [run EXCEPT !.calls = @ + 1,
                                 !.trace = @ \o <<"rate_limit_delay", "call">>,
                                 !.from = attempt + 1]
         IN  IF o = "ok"
             THEN [st |-> st1, run |-> [run1 EXCEPT !.result = "ok"]]
             ELSE IF attempt < n - 1
                  THEN HandleErrors(
                          [st1 EXCEPT !.now = @ + TwRetryDelay],
                          [run1 EXCEPT !.sleeps = Append(@, TwRetryDelay),
                                       !.trace = Append(@, "sleep")],
                          attempt + 1, n, outcomes, delay)
                  ELSE [st |-> st1,
                        run |-> [run1 EXCEPT !.result = "raised", !.error = o]]

\* the coroutines that run handle_errors on one scraper
Tasks == 1..MaxWorkers

\* no coroutine started: where each one is, the current_time it read, the
\* time its sleep ends, the calls it has made, and the operations admitted
\* since request_count was last reset
NoTasks == [pc |-> [t \in Tasks |-> "idle"],
            current_time |-> [t \in Tasks |-> 0],
            until |-> [t \in Tasks |-> 0],
            calls |-> [t \in Tasks |-> 0],
            admitted |-> 0]

TW_Init ==
    /\ tw_tasks = NoTasks
    /\ tw_now = ClockStart
    /\ tw_max_requests_per_hour \in Config("twitter", 1..MaxLimit, 1)
    /\ tw_retry_attempts \in Config("twitter", 0..MaxAttempts, 0)
    /\ tw_request_count = 0
    /\ tw_last_request_time = 0
    /\ tw_calls = 0
    /\ tw_runs = 0
    /\ tw_permits = <<>>
    /\ tw_outcomes = <<>>
    /\ tw_run = NoRun

TW_Install(st) ==
    /\ tw_now' = st.now
    /\ tw_request_count' = st.request_count
    /\ tw_last_request_time' = st.last_request_time
    /\ tw_calls' = st.calls
    /\ tw_permits' = st.permits

\* one direct call of TwitterScraper.rate_limit_delay
TW_rate_limit_delay ==
    /\ script = "twitter"
    /\ tw_calls < MaxCalls
    /\ \E gap \in TwGaps, delay \in Uniform(TwMinDelay, TwMaxDelay) :
        LET st == [TwState EXCEPT !.now = @ + gap]
        IN  TW_Install(RateLimitDelay(st, tw_max_requests_per_hour, delay))
    /\ UNCHANGED <<tw_max_requests_per_hour, tw_retry_attempts, tw_runs,
                   tw_outcomes, tw_run>>

\* one call of TwitterScraper.handle_errors
TW_handle_errors ==
    /\ script = "twitter"
    /\ tw_runs < MaxRuns
    /\ tw_calls + tw_retry_attempts <= MaxCalls
    /\ \E gap \in TwGaps, delay \in Uniform(TwMinDelay, TwMaxDelay),
          outcomes \in [1..tw_retry_attempts -> Outcomes] :
        LET st == [TwState EXCEPT !.now = @ + gap]
            r == HandleErrors(st, NoRun, 0, tw_retry_attempts, outcomes, delay)
        IN  /\ TW_Install(r.st)
            /\ tw_run' = r.run
            /\ tw_runs' = tw_runs + 1
            /\ tw_outcomes' = Observable(outcomes)
    /\ UNCHANGED <<tw_max_requests_per_hour, tw_retry_attempts>>

\* ---- rate_limit_delay step by step, as the event loop runs it for the
\* coroutines: a coroutine runs alone from one await to the next

\* the event loop wakes the sleeping coroutine whose sleep ends first
WakesNext(t) ==
    \A u \in Tasks :
        tw_tasks.pc[u] \in {"wait", "delay"} =>
            tw_tasks.until[t] <= tw_tasks.until[u]

\* handle_errors enters rate_limit_delay: from the call to the first await,
\* which is asyncio.sleep(wait_time) at the ceiling and asyncio.sleep(delay)
\* otherwise
TW_task_call(t) ==
    /\ script = "twitter"
    /\ tw_tasks.pc[t] = "idle"
    /\ tw_tasks.calls[t] < MaxWorkerCalls
    /\ \E delay \in Uniform(TwMinDelay, TwMaxDelay) :
        LET current_time == tw_now
            wait == tw_request_count >= tw_max_requests_per_hour
                    /\ current_time - tw_last_request_time < TwHour
            wait_time == TwHour - (current_time - tw_last_request_time)
        IN  tw_tasks' = [tw_tasks EXCEPT
                           !.pc[t] = IF wait THEN "wait" ELSE "delay",
                           !.current_time[t] = current_time,
                           !.until[t] = current_time
                                        + (IF wait THEN wait_time ELSE delay),
                           !.calls[t] = @ + 1]
    /\ UNCHANGED <<tw_vars, li_status, px, db_manager>>

\* asyncio.sleep(wait_time) returns: request_count = 0, then the random
\* delay up to the second await
TW_task_reset(t) ==
    /\ script = "twitter"
    /\ tw_tasks.pc[t] = "wait"
    /\ WakesNext(t)
    /\ \E delay \in Uniform(TwMinDelay, TwMaxDelay) :
        tw_tasks' = [tw_tasks EXCEPT !.pc[t] = "delay",
                                     !.until[t] = @ + delay,
                                     !.admitted = 0]
    /\ tw_now' = tw_tasks.until[t]
    /\ tw_request_count' = 0
    /\ UNCHANGED <<tw_max_requests_per_hour, tw_retry_attempts,
                   tw_last_request_time, tw_calls, tw_runs, tw_permits,
                   tw_outcomes, tw_run>>
    /\ UNCHANGED <<li_status, px, db_manager>>

\* asyncio.sleep(delay) returns: request_count += 1 and last_request_time
\* = current_time with no await between them; rate_limit_delay returns and
\* handle_errors invokes the operation
TW_task_admit(t) ==
    /\ script = "twitter"
    /\ tw_tasks.pc[t] = "delay"
    /\ WakesNext(t)
    /\ tw_tasks' = [tw_tasks EXCEPT !.pc[t] = "idle", !.admitted = @ + 1]
    /\ tw_now' = tw_tasks.until[t]
    /\ tw_request_count' = tw_request_count + 1
    /\ tw_last_request_time' = tw_tasks.current_time[t]
    /\ tw_calls' = tw_calls + 1
    /\ tw_permits' = Append(tw_permits, tw_tasks.until[t])
    /\ UNCHANGED <<tw_max_requests_per_hour, tw_retry_attempts, tw_runs,
                   tw_outcomes, tw_run>>
    /\ UNCHANGED <<li_status, px, db_manager>>

\* ================================================================ Facebook
FbDefaultAttempts == 3
FbDefaultBackoff == 2

\* self.last_success_time = None
NoTime == -1

RECURSIVE SumSeq(_)
SumSeq(q) == IF q = <<>> THEN 0 ELSE q[1] + SumSeq(Tail(q))

\* HealthMonitor.__init__ at time `now`
NewHealthMonitor(now) ==
    [successful_requests |-> 0, failed_requests |-> 0, start_time |-> now,
     last_success_time |-> NoTime]

\* HealthMonitor.record_success at time `now`
RecordSuccess(h, now) ==
    [h EXCEPT !.successful_requests = @ + 1, !.last_success_time = now]

RecordFailureLost(h) == h
\* HealthMonitor.record_failure
RecordFailure(h) == [h EXCEPT !.failed_requests = @ + 1]

Round2Floor(num, den) == num \div den
\* round(num / den, 2) in hundredths, for num / den given in hundredths:
\* to the nearest, a tie to the even neighbour
Round2(num, den) ==
    LET q == num \div den
        r == num % den
    IN  IF 2 * r < den THEN q
        ELSE IF 2 * r > den THEN q + 1
        ELSE IF q % 2 = 0 THEN q ELSE q + 1

GetStatsCounting(h, now) ==
    [h |-> [h EXCEPT !.successful_requests = @ + 1],
     stats |-> [successful_requests |-> h.successful_requests + 1,
                failed_requests |-> h.failed_requests,
                total_requests |-> h.successful_requests + 1 + h.failed_requests,
                success_rate |-> 0, runtime |-> 0,
                last_success |-> h.last_success_time]]
\* HealthMonitor.get_stats at time `now`: the monitor after the call and the
\* dict returned; success_rate is in hundredths of a percent
GetStats(h, now) ==
    LET total_requests == h.successful_requests + h.failed_requests
        success_rate == IF total_requests > 0
                        THEN Round2(h.successful_requests * 10000, total_requests)
                        ELSE 0
    IN  [h |-> h,
         stats |-> [successful_requests |-> h.successful_requests,
                    failed_requests |-> h.failed_requests,
                    total_requests |-> total_requests,
                    success_rate |-> success_rate,
                    runtime |-> now - h.start_time,
                    last_success |-> h.last_success_time]]

\* HealthMonitor.log_health_report at time `now`: the monitor after the call
\* and the figures of the line logged
LogHealthReport(h, now) ==
    LET r == GetStats(h, now)
    IN  [h |-> r.h,
         line |-> <<r.stats.success_rate, r.stats.total_requests,
                    r.stats.runtime>>]

BackoffTimeNext(backoff, attempt) == backoff * Pow2(attempt + 1)
\* self.config.retry_backoff * (2 ** attempt)
BackoffTime(backoff, attempt) == backoff * Pow2(attempt)

MayRetryAlways(attempt, n) == attempt < n
\* attempt < self.config.retry_attempts - 1
MayRetry(attempt, n) == attempt < n - 1

\* FacebookScraper._handle_request_with_retry from attempt `attempt`
\* (0-based) on: the health counters and the record of the call
RECURSIVE HandleRequestWithRetry(_, _, _, _, _, _)
HandleRequestWithRetry(h, run, attempt, n, backoff, outcomes) ==
    IF attempt >= n
    THEN [h |-> h, run |-> [run EXCEPT !.result = "None"]]
    ELSE LET o == outcomes[attempt + 1]
             run1 == [run EXCEPT !.calls = @ + 1,
                                 !.trace = Append(@, "call"),
                                 !.from = attempt + 1]
         IN  IF o = "ok"
             THEN [h |-> RecordSuccess(h, fb_now + SumSeq(run.sleeps)),
                   run |-> [run1 EXCEPT !.result = "ok"]]
             ELSE IF o = "KeyboardInterrupt"
             THEN \* not an Exception: it leaves the wrapper, nothing recorded
                  [h |-> h, run |-> [run1 EXCEPT !.result = "interrupted"]]
             ELSE IF MayRetry(attempt, n) /\ o = "InterruptedSleep"
             THEN \* KeyboardInterrupt in time.sleep(backoff_time)
                  [h |-> RecordFailure(h),
                   run |-> [run1 EXCEPT !.trace = Append(@, "sleep"),
                                        !.result = "interrupted"]]
             ELSE IF MayRetry(attempt, n)
                  THEN HandleRequestWithRetry(
                          RecordFailure(h),
                          [run1 EXCEPT
                             !.sleeps = Append(@, BackoffTime(backoff, attempt)),
                             !.trace = Append(@, "sleep")],
                          attempt + 1, n, backoff, outcomes)
                  ELSE [h |-> RecordFailure(h),
                        run |-> [run1 EXCEPT !.result = "raised", !.error = o]]

\* no get_stats call made yet
NoStats == [successful_requests |-> 0, failed_requests |-> 0,
            total_requests |-> 0, success_rate |-> 0, runtime |-> 0,
            last_success |-> NoTime]

\* time that passes between two calls
FbTick == 1

FB_Init ==
    /\ fb_retry_attempts \in Config("facebook", 0..MaxAttempts, FbDefaultAttempts)
    /\ fb_retry_backoff \in Config("facebook", {1, FbDefaultBackoff}, FbDefaultBackoff)
    /\ fb_now = ClockStart
    /\ fb_health = NewHealthMonitor(ClockStart)
    /\ fb_runs = 0
    /\ fb_outcomes = <<>>
    /\ fb_run = NoRun
    /\ fb_invocations = 0
    /\ fb_returned = 0
    /\ fb_succ_calls = 0
    /\ fb_fail_calls = 0
    /\ fb_reports = 0
    /\ fb_op = "none"
    /\ fb_stats = NoStats
    /\ fb_logged = <<>>
    /\ fb_seen = [n |-> 0, m |-> 0]

\* one call of FacebookScraper._handle_request_with_retry.  The wrapper and
\* the direct calls of the HealthMonitor methods are explored apart: the
\* wrapper on a monitor nothing else has called, the direct calls on a
\* monitor no wrapper has used.
FB_handle_request_with_retry ==
    /\ script = "facebook"
    /\ fb_runs < FbMaxRuns
    /\ fb_succ_calls + fb_fail_calls + fb_reports = 0
    /\ \E outcomes \in [1..fb_retry_attempts -> Outcomes] :
        LET r == HandleRequestWithRetry(fb_health, NoRun, 0, fb_retry_attempts,
                                        fb_retry_backoff, outcomes)
        IN  /\ fb_health' = r.h
            /\ fb_run' = r.run
            /\ fb_outcomes' = Observable(outcomes)
            /\ fb_now' = fb_now + SumSeq(r.run.sleeps) + FbTick
            /\ fb_invocations' = fb_invocations + r.run.calls
            /\ fb_returned' = fb_returned + (IF r.run.result = "ok" THEN 1 ELSE 0)
    /\ fb_runs' = fb_runs + 1
    /\ UNCHANGED <<fb_retry_attempts, fb_retry_backoff, fb_succ_calls,
                   fb_fail_calls, fb_reports, fb_op, fb_stats, fb_logged,
                   fb_seen>>

\* the frame of a direct call of a HealthMonitor method
FB_MonitorFrame ==
    UNCHANGED <<fb_retry_attempts, fb_retry_backoff, fb_runs, fb_outcomes,
                fb_run, fb_invocations, fb_returned>>

\* the record calls made so far, inside the wrapper and outside it
RecordCalls ==
    [n |-> fb_returned + fb_succ_calls,
     m |-> (fb_invocations - fb_returned) + fb_fail_calls]

\* one call of HealthMonitor.record_success
FB_record_success ==
    /\ script = "facebook"
    /\ fb_runs = 0
    /\ fb_succ_calls + fb_fail_calls < MaxRecords
    /\ fb_health' = RecordSuccess(fb_health, fb_now)
    /\ fb_succ_calls' = fb_succ_calls + 1
    /\ fb_now' = fb_now + FbTick
    /\ fb_op' = "record_success"
    /\ FB_MonitorFrame
    /\ UNCHANGED <<fb_fail_calls, fb_reports, fb_stats, fb_logged, fb_seen>>

\* one call of HealthMonitor.record_failure
FB_record_failure ==
    /\ script = "facebook"
    /\ fb_runs = 0
    /\ fb_succ_calls + fb_fail_calls < MaxRecords
    /\ fb_health' = RecordFailure(fb_health)
    /\ fb_fail_calls' = fb_fail_calls + 1
    /\ fb_now' = fb_now + FbTick
    /\ fb_op' = "record_failure"
    /\ FB_MonitorFrame
    /\ UNCHANGED <<fb_succ_calls, fb_reports, fb_stats, fb_logged, fb_seen>>

\* one call of HealthMonitor.get_stats
FB_get_stats ==
    /\ script = "facebook"
    /\ fb_runs = 0
    /\ fb_reports < MaxReports
    /\ LET r == GetStats(fb_health, fb_now)
       IN  /\ fb_health' = r.h
           /\ fb_stats' = r.stats
    /\ fb_seen' = RecordCalls
    /\ fb_reports' = fb_reports + 1
    /\ fb_now' = fb_now + FbTick
    /\ fb_op' = "get_stats"
    /\ FB_MonitorFrame
    /\ UNCHANGED <<fb_succ_calls, fb_fail_calls, fb_logged>>

\* one call of HealthMonitor.log_health_report
FB_log_health_report ==
    /\ script = "facebook"
    /\ fb_runs = 0
    /\ fb_reports < MaxReports
    /\ LET r == LogHealthReport(fb_health, fb_now)
       IN  /\ fb_health' = r.h
           /\ fb_logged' = r.line
    /\ fb_reports' = fb_reports + 1
    /\ fb_now' = fb_now + FbTick
    /\ fb_op' = "log_health_report"
    /\ FB_MonitorFrame
    /\ UNCHANGED <<fb_succ_calls, fb_fail_calls, fb_stats, fb_seen>>

\* ---------------------------------------------------------------- workers
\* several workers calling record_success / record_failure on one
\* HealthMonitor: `self.successful_requests += 1` is a read of the attribute
\* followed by a write of the value read plus one, with no lock around them
Workers == 1..MaxWorkers

HM_Init ==
    /\ hm_pc = [w \in Workers |-> "idle"]
    /\ hm_tmp = [w \in Workers |-> 0]
    /\ hm_started = [success |-> 0, failure |-> 0,
                     by |-> [w \in Workers |-> 0]]

\* the variables of the Facebook script the workers leave alone
HM_Frame ==
    UNCHANGED <<fb_retry_attempts, fb_retry_backoff, fb_runs, fb_outcomes,
                fb_run, fb_now, fb_invocations, fb_returned, fb_succ_calls,
                fb_fail_calls, fb_reports, fb_op, fb_stats, fb_logged, fb_seen>>

\* record_success, the read of self.successful_requests
HM_success_read(w) ==
    /\ hm_pc[w] = "idle"
    /\ hm_started.by[w] < MaxWorkerCalls
    /\ hm_tmp' = [hm_tmp EXCEPT ![w] = fb_health.successful_requests]
    /\ hm_pc' = [hm_pc EXCEPT ![w] = "success_write"]
    /\ hm_started' = [hm_started EXCEPT !.success = @ + 1, !.by[w] = @ + 1]
    /\ UNCHANGED fb_health
    /\ HM_Frame

\* record_success, the write of self.successful_requests
HM_success_write(w) ==
    /\ hm_pc[w] = "success_write"
    /\ fb_health' = [fb_health EXCEPT !.successful_requests = hm_tmp[w] + 1]
    /\ hm_pc' = [hm_pc EXCEPT ![w] = "success_stamp"]
    /\ UNCHANGED <<hm_tmp, hm_started>>
    /\ HM_Frame

\* record_success, self.last_success_time = datetime.now()
HM_success_stamp(w) ==
    /\ hm_pc[w] = "success_stamp"
    /\ fb_health' = [fb_health EXCEPT !.last_success_time = fb_now]
    /\ hm_pc' = [hm_pc EXCEPT ![w] = "idle"]
    /\ UNCHANGED <<hm_tmp, hm_started>>
    /\ HM_Frame

\* record_failure, the read of self.failed_requests
HM_failure_read(w) ==
    /\ hm_pc[w] = "idle"
    /\ hm_started.by[w] < MaxWorkerCalls
    /\ hm_tmp' = [hm_tmp EXCEPT ![w] = fb_health.failed_requests]
    /\ hm_pc' = [hm_pc EXCEPT ![w] = "failure_write"]
    /\ hm_started' = [hm_started EXCEPT !.failure = @ + 1, !.by[w] = @ + 1]
    /\ UNCHANGED fb_health
    /\ HM_Frame

\* record_failure, the write of self.failed_requests
HM_failure_write(w) ==
    /\ hm_pc[w] = "failure_write"
    /\ fb_health' = [fb_health EXCEPT !.failed_requests = hm_tmp[w] + 1]
    /\ hm_pc' = [hm_pc EXCEPT ![w] = "idle"]
    /\ UNCHANGED <<hm_tmp, hm_started>>
    /\ HM_Frame

\* ---------------------------------------------------------------- the job
\* config.max_posts_per_target and config.health_check_interval
MaxPostsPerTarget == 2
HealthCheckInterval == 10

\* the name of the i-th configured page; the groups are <<"group", i>>
PageName(i) == <<"page", i>>
\* all_scraped_data.json
AllData == <<"all_scraped_data", 0>>

\* what the wrapped get_posts call does on each of the `n` attempts: it
\* returns, it raises, it is interrupted (KeyboardInterrupt), or it raises
\* and the backoff sleep that follows is interrupted
WrapperOutcomes(n) ==
    {[i \in 1..n |-> IF i = 1 THEN first ELSE "ok"] :
        first \in {"ok", "Transient", "KeyboardInterrupt", "InterruptedSleep"}}
    \cup {[i \in 1..n |-> "Transient"]}

\* what the iteration over the posts meets, item by item: a post, a post the
\* processing of which raises, a post after which the delay is interrupted,
\* an exception of the generator, an interruption of it; the end of the
\* sequence is the end of the generator
PostEvents ==
    LET goods(k) == [i \in 1..k |-> "good"]
        items == {goods(k) : k \in 0..MaxPostsPerTarget}
                 \cup {<<"bad", "good">>}
        ends == {<<>>, <<"error">>, <<"interrupt">>}
    IN  {s \o e : s \in items, e \in ends}
        \cup {goods(MaxPostsPerTarget + 1), <<"good_interrupted">>}

\* the loop `for i, post in enumerate(posts)` of _scrape_page_posts from the
\* item of index i - 1 on
RECURSIVE IteratePosts(_, _, _, _)
IteratePosts(name, events, i, posts_data) ==
    IF i > Len(events)
    THEN [posts |-> posts_data, failed |-> FALSE, interrupted |-> FALSE]
    ELSE IF events[i] = "error"
    THEN [posts |-> posts_data, failed |-> TRUE, interrupted |-> FALSE]
    ELSE IF events[i] = "interrupt"
    THEN [posts |-> posts_data, failed |-> FALSE, interrupted |-> TRUE]
    ELSE IF i - 1 >= MaxPostsPerTarget
    THEN [posts |-> posts_data, failed |-> FALSE, interrupted |-> FALSE]
    ELSE IF events[i] = "bad"
    THEN IteratePosts(name, events, i + 1, posts_data)
    ELSE LET appended == Append(posts_data, <<name, i>>)
         IN  IF i - 1 < MaxPostsPerTarget - 1 /\ events[i] = "good_interrupted"
             THEN [posts |-> appended, failed |-> FALSE, interrupted |-> TRUE]
             ELSE IteratePosts(name, events, i + 1, appended)

\* FacebookScraper._scrape_page_posts: the posts it collected, whether it
\* met an exception, whether a KeyboardInterrupt left it (it then returns
\* nothing), and the health monitor afterwards
ScrapePagePosts(h, n, backoff, name, wrapper, events) ==
    LET r == HandleRequestWithRetry(h, NoRun, 0, n, backoff, wrapper)
    IN  IF r.run.result = "interrupted"
        THEN [posts |-> <<>>, failed |-> FALSE, interrupted |-> TRUE, h |-> r.h]
        ELSE IF r.run.result # "ok"
        THEN \* the wrapper raised, or returned None and enumerate(None) raised
             [posts |-> <<>>, failed |-> TRUE, interrupted |-> FALSE, h |-> r.h]
        ELSE [h |-> r.h] @@ IteratePosts(name, events, 1, <<>>)

\* FacebookScraper._save_data: the files after it; disk says whether the
\* output directory can be written
SaveData(files, disk, data, filename) ==
    IF disk = "ok"
    THEN [f \in DOMAIN files \cup {filename} |->
             IF f = filename THEN data ELSE files[f]]
    ELSE files

\* no job started
NoJob == [pc |-> "idle", pages |-> 0, groups |-> 0, null |-> "none",
          disk |-> "ok", idx |-> 0, scraped_data |-> <<>>,
          files |-> [f \in {} |-> <<>>], processed |-> <<>>,
          collected |-> <<>>, last |-> [failed |-> FALSE, posts |-> <<>>],
          path |-> "none", report |-> <<>>]

\* the target the loops of scrape_all_targets come to after `idx` targets
TargetAt(job, idx) ==
    IF idx < job.pages THEN PageName(idx + 1)
    ELSE <<"group", idx + 1 - job.pages>>

\* the statistics main prints in its finally block
FinalStatistics(job, h, now) ==
    LET stats == GetStats(h, now).stats
    IN  <<Len(job.scraped_data), stats.success_rate, stats.runtime>>

\* main() with the statistics printed at the end of the try block only
MainEndsNoFinally(job, h, now, path) ==
    [job EXCEPT !.pc = "done", !.path = path,
                !.report = IF path = "normal"
                           THEN <<Len(job.scraped_data),
                                  GetStats(h, now).stats.success_rate,
                                  GetStats(h, now).stats.runtime>>
                           ELSE <<>>]
\* main() leaving the try block on `path`: the except blocks and the finally
MainEnds(job, h, now, path) ==
    [job EXCEPT !.pc = "done", !.path = path,
                !.report = FinalStatistics(job, h, now)]

\* main() of run_fb_scraper.py up to the call of scrape_all_targets:
\* load_config reads the targets (a list may be null in config.json) and a
\* FacebookScraper is constructed
FB_main ==
    /\ script = "facebook"
    /\ fb_job.pc = "idle"
    /\ fb_runs = 0
    /\ fb_succ_calls + fb_fail_calls + fb_reports = 0
    /\ \E pages \in 0..MaxTargets, groups \in {0, 1},
          null \in {"none", "target_pages", "target_groups"},
          disk \in {"ok", "fails"} :
        /\ pages + groups <= MaxTargets
        /\ null = "target_pages" => pages = 0 /\ groups = 0
        /\ null = "target_groups" => groups = 0
        /\ fb_job' = [NoJob EXCEPT !.pc = "running", !.pages = pages,
                                   !.groups = groups, !.null = null,
                                   !.disk = disk]
    /\ fb_health' = NewHealthMonitor(fb_now)
    /\ fb_now' = fb_now + FbTick
    /\ UNCHANGED <<fb_retry_attempts, fb_retry_backoff, fb_runs, fb_outcomes,
                   fb_run, fb_invocations, fb_returned, fb_succ_calls,
                   fb_fail_calls, fb_reports, fb_op, fb_stats, fb_logged,
                   fb_seen>>

\* page != self.config.target_pages[-1], group != self.config.target_groups[-1]
IsLastTarget(job) ==
    IF job.idx < job.pages
    THEN job.idx + 1 = job.pages
    ELSE job.idx + 1 = job.pages + job.groups

\* one pass of a loop of scrape_all_targets over the next target; pause is
\* what happens in the sleep between two targets
ScrapeTarget(job, h, now, n, backoff, wrapper, events, pause) ==
    LET name == TargetAt(job, job.idx)
        is_last == IsLastTarget(job)
        r == ScrapePagePosts(h, n, backoff, name, wrapper, events)
        seen == [job EXCEPT !.processed = Append(@, name),
                            !.collected = @ \o r.posts]
    IN  IF r.interrupted
        THEN [job |-> MainEnds(seen, r.h, now, "interrupted"), h |-> r.h]
        ELSE LET saved == [seen EXCEPT
                              !.idx = @ + 1,
                              !.scraped_data = @ \o r.posts,
                              !.files = SaveData(@, job.disk, r.posts, name),
                              !.last = [failed |-> r.failed, posts |-> r.posts]]
                 h1 == IF Len(saved.scraped_data) % HealthCheckInterval = 0
                       THEN LogHealthReport(r.h, now).h
                       ELSE r.h
             IN  IF ~is_last /\ pause = "interrupt"
                 THEN [job |-> MainEnds(saved, h1, now, "interrupted"), h |-> h1]
                 ELSE [job |-> saved, h |-> h1]

\* what the iteration of a pass can meet: nothing when the wrapped call did
\* not return the generator
EventInputs(wrapper) ==
    IF HandleRequestWithRetry(fb_health, NoRun, 0, fb_retry_attempts,
                              fb_retry_backoff, wrapper).run.result = "ok"
    THEN PostEvents ELSE {<<>>}

FB_scrape_target ==
    /\ script = "facebook"
    /\ fb_job.pc = "running"
    /\ fb_job.null # "target_pages"
    /\ fb_job.idx < fb_job.pages + fb_job.groups
    /\ \E wrapper \in WrapperOutcomes(fb_retry_attempts) :
        \E events \in EventInputs(wrapper),
           pause \in (IF IsLastTarget(fb_job) THEN {"ok"}
                      ELSE {"ok", "interrupt"}) :
            LET r == ScrapeTarget(fb_job, fb_health, fb_now, fb_retry_attempts,
                                  fb_retry_backoff, wrapper, events, pause)
            IN  /\ fb_job' = r.job
                /\ fb_health' = r.h
    /\ fb_now' = fb_now + FbTick
    /\ UNCHANGED <<fb_retry_attempts, fb_retry_backoff, fb_runs, fb_outcomes,
                   fb_run, fb_invocations, fb_returned, fb_succ_calls,
                   fb_fail_calls, fb_reports, fb_op, fb_stats, fb_logged,
                   fb_seen>>

\* an end of scrape_all_targets that writes the posts of the last target
\* only to all_scraped_data.json
FinishScrapingLastOnly(job, h, now) ==
    IF job.null # "none"
    THEN [job |-> MainEnds(job, h, now, "exception"), h |-> h]
    ELSE [job |-> MainEnds([job EXCEPT
                              !.files = SaveData(@, job.disk,
                                                 job.last.posts, AllData)],
                           h, now, "normal"),
          h |-> h]
\* the end of scrape_all_targets once the loops are done: a loop over a null
\* list raises TypeError, otherwise all_scraped_data.json is written and the
\* final health report logged; then main() ends
FinishScraping(job, h, now) ==
    IF job.null # "none"
    THEN [job |-> MainEnds(job, h, now, "exception"), h |-> h]
    ELSE LET h1 == LogHealthReport(h, now).h
         IN  [job |-> MainEnds([job EXCEPT
                                  !.files = SaveData(@, job.disk,
                                                     job.scraped_data, AllData)],
                               h1, now, "normal"),
              h |-> h1]

FB_finish ==
    /\ script = "facebook"
    /\ fb_job.pc = "running"
    /\ fb_job.idx = fb_job.pages + fb_job.groups
    /\ LET r == FinishScraping(fb_job, fb_health, fb_now)
       IN  /\ fb_job' = r.job
           /\ fb_health' = r.h
    /\ fb_now' = fb_now + FbTick
    /\ UNCHANGED <<fb_retry_attempts, fb_retry_backoff, fb_runs,
                   fb_outcomes, fb_run, fb_invocations, fb_returned,
                   fb_succ_calls, fb_fail_calls, fb_reports, fb_op, fb_stats,
                   fb_logged, fb_seen>>

\* ================================================================ collectors
\* what a collect call meets, record by record: a record that is built and
\* saved, one whose save_post meets a sqlite3.Error, and an exception raised
\* by the results iterator or by the construction of the record; the end of
\* the sequence is the end of the results
CollectEvents ==
    {s \o e : s \in UNION {[1..k -> {"good", "unsaved"}] : k \in 0..MaxItems + 1},
              e \in {<<>>, <<"error">>}}

\* a save_post that stores nothing
SavePostNowhere(db, post, io) == db
\* DatabaseManager.save_post: INSERT OR REPLACE under the id of the post; a
\* sqlite3.Error is logged and the post is not stored
SavePost(db, post, io) == IF io = "ok" THEN db \cup {post} ELSE db

\* the loop over the results of RedditCollector.collect and
\* YouTubeCollector.collect from record i on
RECURSIVE CollectLoop(_, _, _, _, _)
CollectLoop(platform, db, events, i, posts) ==
    IF i > Len(events)
    THEN [ret |-> posts, db |-> db, failed |-> FALSE, raised |-> FALSE]
    ELSE IF events[i] = "error"
    THEN \* except Exception: logged, the posts collected so far returned
         [ret |-> posts, db |-> db, failed |-> TRUE, raised |-> FALSE]
    ELSE LET post == <<platform, i>>
         IN  CollectLoop(platform,
                         SavePost(db, post, IF events[i] = "good"
                                            THEN "ok" ELSE "sqlite3.Error"),
                         events, i + 1, Append(posts, post))

\* RedditCollector.collect
RedditCollect(db, events) == CollectLoop("reddit", db, events, 1, <<>>)

\* YouTubeCollector.collect; requests says what the two requests made before
\* the loop (search().list, videos().list) do
YouTubeCollect(db, requests, events) ==
    IF requests # "ok"
    THEN [ret |-> <<>>, db |-> db, failed |-> TRUE, raised |-> FALSE]
    ELSE CollectLoop("youtube", db, events, 1, <<>>)

\* no collect call made
NoCollect == [op |-> "none", ret |-> <<>>, db |-> {}, failed |-> FALSE,
              raised |-> FALSE, events |-> <<>>]

SM_reddit_collect ==
    /\ script = "social_media"
    /\ sm.op # "RedditCollector.collect"
    /\ \E events \in CollectEvents :
        sm' = [op |-> "RedditCollector.collect", events |-> events]
              @@ RedditCollect(sm.db, events)
    /\ UNCHANGED fb_job

SM_youtube_collect ==
    /\ script = "social_media"
    /\ sm.op # "YouTubeCollector.collect"
    /\ \E requests \in {"ok", "HttpError"} :
        \E events \in (IF requests = "ok" THEN CollectEvents ELSE {<<>>}) :
            sm' = [op |-> "YouTubeCollector.collect", events |-> events]
                  @@ YouTubeCollect(sm.db, requests, events)
    /\ UNCHANGED fb_job

\* ================================================================ ProxyManager
\* the proxies are numbered; config.json may list one twice
ProxyLists == UNION {[1..n -> 1..MaxProxies] : n \in 0..MaxProxies}

\* what a get_next_proxy call did: the proxy returned (0 is None), the
\* entries examined and the proxies tested in order, with the result of
\* each test, the index it started at and the failed set it found, and
\* whether it cleared the failed set
NoCall == [ret |-> 0, examined |-> <<>>, tested |-> <<>>, passed |-> <<>>,
           from |-> 0, failed_before |-> {}, cleared |-> FALSE]

\* ProxyManager.__init__
NewProxyManager(proxy_list) ==
    [proxy_list |-> proxy_list, current_index |-> 0, failed_proxies |-> {},
     calls |-> 0, last |-> NoCall]

\* the while loop of get_next_proxy from `attempts` on; tests[k] is what the
\* k-th _test_proxy of the call returns
RECURSIVE NextProxyLoop(_, _, _)
NextProxyLoop(pm, attempts, tests) ==
    IF attempts >= Len(pm.proxy_list)
    THEN \* all proxies failed: the failed set is reset, the first returned
         [pm EXCEPT !.failed_proxies = {},
                    !.last.cleared = TRUE,
                    !.last.ret = pm.proxy_list[1]]
    ELSE LET proxy == pm.proxy_list[pm.current_index + 1]
             pm1 == [pm EXCEPT
                       !.current_index = (@ + 1) % Len(pm.proxy_list),
                       !.last.examined = Append(@, proxy)]
         IN  IF proxy \in pm.failed_proxies
             THEN NextProxyLoop(pm1, attempts + 1, tests)
             ELSE LET ok == tests[Len(pm.last.tested) + 1]
                      pm2 == [pm1 EXCEPT !.last.tested = Append(@, proxy),
                                         !.last.passed = Append(@, ok)]
                  IN  IF ok
                      THEN [pm2 EXCEPT !.last.ret = proxy]
                      ELSE NextProxyLoop(
                              [pm2 EXCEPT !.failed_proxies = @ \cup {proxy}],
                              attempts + 1, tests)

\* a get_next_proxy that starts every call at the head of the list
GetNextProxyFromHead(pm, tests) ==
    LET pm0 == [pm EXCEPT !.calls = @ + 1,
                          !.current_index = 0,
                          !.last = [NoCall EXCEPT
                                      !.from = pm.current_index,
                                      !.failed_before = pm.failed_proxies]]
    IN  IF pm.proxy_list = <<>>
        THEN pm0
        ELSE NextProxyLoop(pm0, 0, tests)
\* ProxyManager.get_next_proxy
GetNextProxy(pm, tests) ==
    LET pm0 == [pm EXCEPT !.calls = @ + 1,
                          !.last = [NoCall EXCEPT
                                      !.from = pm.current_index,
                                      !.failed_before = pm.failed_proxies]]
    IN  IF pm.proxy_list = <<>>
        THEN pm0
        ELSE NextProxyLoop(pm0, 0, tests)

\* FacebookScraper.__init__ builds the manager from config.proxy_list
PX_init ==
    /\ script = "facebook"
    /\ px.calls = 0
    /\ px.proxy_list = <<>>
    /\ \E proxy_list \in ProxyLists \ {<<>>} :
        px' = NewProxyManager(proxy_list)
    /\ UNCHANGED <<li_status, tw_tasks, db_manager>>

\* one call of get_next_proxy (from _setup_session)
PX_get_next_proxy ==
    /\ script = "facebook"
    /\ px.calls < MaxOps
    /\ \E tests \in [1..Len(px.proxy_list) -> BOOLEAN] :
        px' = GetNextProxy(px, tests)
    /\ UNCHANGED <<li_status, tw_tasks, db_manager>>

\* ================================================================ DatabaseManager
\* the posts save_post is called with: an id, the platform of the dataclass
\* (RedditPost, YouTubeVideo) and the rest of the fields as one value
Posts == [id : 1..MaxIds, platform : {"reddit", "youtube"}, value : {1, 2}]

\* INSERT OR REPLACE INTO table ... with the primary key `id`
InsertOrReplace(table, id, row) ==
    [i \in DOMAIN table \cup {id} |-> IF i = id THEN row ELSE table[i]]

\* DatabaseManager.init_database on a new file: the three tables, empty;
\* saved is the post of the last save of each id that met no error
InitDatabase ==
    [posts |-> <<>>, reddit_posts |-> <<>>,
     youtube_videos |-> <<>>, saved |-> <<>>, calls |-> 0,
     before |-> [posts |-> <<>>, reddit_posts |-> <<>>,
                 youtube_videos |-> <<>>],
     fault |-> "none", raised |-> FALSE]

\* a save_post whose statements are committed one by one
SavePostTablesAutocommit(d, post, fault) ==
    LET posts == InsertOrReplace(d.posts, post.id,
                                 [platform |-> post.platform,
                                  value |-> post.value])
    IN  IF fault = "posts" THEN d
        ELSE IF fault # "none" THEN [d EXCEPT !.posts = posts]
        ELSE [d EXCEPT
                !.posts = posts,
                !.reddit_posts = IF post.platform = "reddit"
                                 THEN InsertOrReplace(@, post.id, post.value)
                                 ELSE @,
                !.youtube_videos = IF post.platform = "youtube"
                                   THEN InsertOrReplace(@, post.id, post.value)
                                   ELSE @]
\* DatabaseManager.save_post: the two INSERT OR REPLACE statements and the
\* commit run in one transaction of the connection; fault names the step
\* that raises sqlite3.Error, after which nothing is committed, or is
\* "json.dumps" when the metadata of the post cannot be serialised
SavePostTables(d, post, fault) ==
    IF fault # "none"
    THEN d
    ELSE [d EXCEPT
            !.posts = InsertOrReplace(@, post.id,
                                      [platform |-> post.platform,
                                       value |-> post.value]),
            !.reddit_posts = IF post.platform = "reddit"
                             THEN InsertOrReplace(@, post.id, post.value)
                             ELSE @,
            !.youtube_videos = IF post.platform = "youtube"
                               THEN InsertOrReplace(@, post.id, post.value)
                               ELSE @]

\* the steps of save_post that can raise sqlite3.Error
DatabaseErrors == {"posts", "platform", "commit"}

\* one call of DatabaseManager.save_post; only sqlite3.Error is caught
DB_save_post ==
    /\ script = "social_media"
    /\ db_manager.calls < MaxOps
    /\ \E post \in Posts,
          fault \in {"none", "json.dumps"} \cup DatabaseErrors :
        LET d == SavePostTables(db_manager, post, fault)
        IN  db_manager' = [d EXCEPT
                     !.calls = @ + 1,
                     !.saved = IF fault = "none"
                               THEN InsertOrReplace(@, post.id, post)
                               ELSE @,
                     !.before = [posts |-> db_manager.posts,
                                 reddit_posts |-> db_manager.reddit_posts,
                                 youtube_videos |-> db_manager.youtube_videos],
                     !.fault = fault,
                     !.raised = (fault = "json.dumps")]
    /\ UNCHANGED <<li_status, tw_tasks, px>>

\* ================================================================ Instagram
IgMaxRetries == 3
IgBaseDelay == 30
IgJitter == 10

IgErrors == {"RateLimitError", "UserNotFound", "LoginRequired"}
IgOutcomes == {"ok"} \cup IgErrors

IsLastAttemptLate(attempt) == attempt = IgMaxRetries
\* attempt == max_retries - 1
IsLastAttempt(attempt) == attempt = IgMaxRetries - 1

IsRateLimitAny(o) == o # "ok"
\* except RateLimitError
IsRateLimit(o) == o = "RateLimitError"

\* InstagramScraper.handle_rate_limit from attempt `attempt` (0-based) on
RECURSIVE HandleRateLimit(_, _, _, _)
HandleRateLimit(run, attempt, outcomes, jitters) ==
    IF attempt >= IgMaxRetries
    THEN [run EXCEPT !.result = "None"]
    ELSE LET o == outcomes[attempt + 1]
             run1 == [run EXCEPT !.calls = @ + 1,
                                 !.trace = Append(@, "call"),
                                 !.from = attempt + 1]
         IN  IF o = "ok"
             THEN [run1 EXCEPT !.result = "ok"]
             ELSE IF IsRateLimit(o)
                  THEN IF IsLastAttempt(attempt)
                       THEN [run1 EXCEPT !.result = "raised", !.error = o]
                       ELSE HandleRateLimit(
                               [run1 EXCEPT
                                  !.sleeps = Append(@, IgBaseDelay * Pow2(attempt)
                                                       + jitters[attempt + 1]),
                                  !.trace = Append(@, "sleep")],
                               attempt + 1, outcomes, jitters)
                  ELSE [run1 EXCEPT !.result = "raised", !.error = o]

\* ---------------------------------------------------------------- session
\* a settings blob: a JSON object, here a function from field names to values
Fields == {"cookies", "uuids"}
Values == {"v1", "v2"}
Blobs == UNION {[D -> Values] : D \in SUBSET Fields}
EmptyBlob == [f \in {} |-> "v1"]

\* json.dump(session_data, f, indent=2): the text of a JSON object, as its
\* set of "key": value members
JsonDump(blob) == {<<k, blob[k]>> : k \in DOMAIN blob}
\* json.load(f) of such a text
JsonLoad(text) ==
    [k \in {m[1] : m \in text} |-> CHOOSE v \in Values : <<k, v>> \in text]

\* a file that was written completely, and one cut off in the middle of a write
Written(text) == [complete |-> TRUE, text |-> text]
Truncated == [complete |-> FALSE, text |-> {}]

\* the session state the three methods work on
IgState == [file_exists |-> ig_file_exists, file |-> ig_file,
            settings |-> ig_settings, logged_in |-> ig_logged_in,
            installed |-> <<>>, saved |-> ig_saved, fresh |-> ig_fresh,
            faults |-> {}, path |-> "none", ret |-> "None",
            authed |-> ig_authed]

\* InstagramScraper.save_session; io says how far the write gets: "crash" is
\* the process stopping between open() and the end of json.dump (open(..., 'w')
\* truncates the file before the first byte is written)
SaveSession(st, io) ==
    LET session_data == st.settings
    IN  IF io = "open_fails"
        THEN [st EXCEPT !.faults = @ \cup {"open"}, !.ret = "None"]
        ELSE IF io = "write_fails"
        THEN [st EXCEPT !.file_exists = TRUE, !.file = Truncated,
                        !.fresh = FALSE, !.faults = @ \cup {"write"},
                        !.ret = "None"]
        ELSE IF io = "crash"
        THEN [st EXCEPT !.file_exists = TRUE, !.file = Truncated,
                        !.fresh = FALSE, !.ret = "crashed"]
        ELSE [st EXCEPT !.file_exists = TRUE,
                        !.file = Written(JsonDump(session_data)),
                        !.saved = session_data, !.fresh = TRUE,
                        !.ret = "None"]

\* InstagramScraper.clear_session; io says whether unlink() works
ClearSession(st, io) ==
    IF st.file_exists /\ io = "unlink_fails"
    THEN \* the except block: nothing after unlink() runs
         [st EXCEPT !.fresh = FALSE, !.faults = @ \cup {"unlink"},
                    !.authed = FALSE, !.ret = "None"]
    ELSE [st EXCEPT !.file_exists = FALSE,
                    !.settings = EmptyBlob,
                    !.logged_in = FALSE,
                    !.fresh = FALSE, !.authed = FALSE, !.ret = "None"]

IsInvalidEmptyOnly(session_data) == DOMAIN session_data = {}
\* not session_data or 'cookies' not in session_data
IsInvalid(session_data) ==
    DOMAIN session_data = {} \/ "cookies" \notin DOMAIN session_data

\* InstagramScraper.load_session; read says whether the file can be read,
\* probe what self.client.login does (refreshed is the settings it leaves),
\* unlink whether the unlink() of a nested clear_session works
LoadSession(st, read, probe, refreshed, unlink) ==
    IF ~st.file_exists
    THEN [st EXCEPT !.ret = "False"]
    ELSE IF read = "read_fails"
    THEN [ClearSession([st EXCEPT !.faults = @ \cup {"read"}], unlink)
            EXCEPT !.ret = "False"]
    ELSE IF ~st.file.complete
    THEN \* json.load raises JSONDecodeError
         [ClearSession(st, unlink) EXCEPT !.ret = "False"]
    ELSE LET session_data == JsonLoad(st.file.text)
         IN  IF IsInvalid(session_data)
             THEN [ClearSession(st, unlink) EXCEPT !.ret = "False"]
             ELSE LET st1 == [st EXCEPT !.settings = session_data,
                                        !.installed = Append(@, session_data)]
                  IN  IF probe = "login_fails"
                      THEN [ClearSession([st1 EXCEPT !.faults = @ \cup {"probe"}],
                                         unlink)
                              EXCEPT !.ret = "False"]
                      ELSE [st1 EXCEPT !.settings = refreshed,
                                       !.logged_in = TRUE,
                                       !.authed = TRUE,
                                       !.ret = "True"]

\* what self.client.login can leave in the client after a successful login
\* over settings `kept`: the same settings, or a new blob of the vendor's
LoginSettings(kept) == {kept} \cup Blobs

IG_SessionInit ==
    /\ ig_file_exists = FALSE
    /\ ig_file = Truncated
    /\ ig_settings = EmptyBlob
    /\ ig_logged_in = FALSE
    /\ ig_ops = 0
    /\ ig_op = "none"
    /\ ig_ret = "None"
    /\ ig_installed = <<>>
    /\ ig_saved = EmptyBlob
    /\ ig_fresh = FALSE
    /\ ig_was_fresh = FALSE
    /\ ig_faults = {}
    /\ ig_path = "none"
    /\ ig_propagated = FALSE
    /\ ig_before = [exists |-> FALSE, file |-> Truncated]
    /\ ig_authed = FALSE

\* except Exception as e: the handler every session method ends with
IgCatches(e) == TRUE

\* the process of the scraper has ended, and its memory with it
Ended(st) == st.ret \in {"crashed", "exited"}

IG_Install(op, st) ==
    /\ ig_file_exists' = st.file_exists
    /\ ig_file' = IF st.file_exists THEN st.file ELSE Truncated
    /\ ig_settings' = IF Ended(st) THEN EmptyBlob ELSE st.settings
    /\ ig_logged_in' = IF Ended(st) THEN FALSE ELSE st.logged_in
    /\ ig_ops' = ig_ops + 1
    /\ ig_op' = op
    /\ ig_ret' = st.ret
    /\ ig_installed' = st.installed
    /\ ig_saved' = st.saved
    /\ ig_fresh' = st.fresh
    /\ ig_was_fresh' = ig_fresh
    /\ ig_faults' = st.faults
    /\ ig_path' = st.path
    /\ ig_propagated' = (\E e \in st.faults : ~IgCatches(e))
    /\ ig_before' = [exists |-> ig_file_exists, file |-> ig_file]
    /\ ig_authed' = IF Ended(st) THEN FALSE ELSE st.authed

\* a session operation can be called: the script runs, its process is alive
\* and handle_rate_limit has not been used
IG_SessionReady ==
    /\ script = "instagram"
    /\ ig_runs = 0
    /\ ig_ops < MaxOps
IG_Alive == ~Ended([ret |-> ig_ret])

IG_save_session ==
    /\ IG_SessionReady
    /\ IG_Alive
    /\ \E io \in {"ok", "open_fails", "write_fails", "crash"} :
        IG_Install("save_session", SaveSession(IgState, io))

IG_clear_session ==
    /\ IG_SessionReady
    /\ IG_Alive
    /\ \E io \in {"ok", "unlink_fails"} :
        /\ (~ig_file_exists => io = "ok")
        /\ IG_Install("clear_session", ClearSession(IgState, io))

\* the inputs load_session consumes in the current state: the read of the
\* file if there is one, the login probe if the blob read is valid, and the
\* unlink() of the nested clear_session if one runs
ReadInputs == IF ig_file_exists THEN {"ok", "read_fails"} ELSE {"ok"}
ReadsValid(read) ==
    /\ ig_file_exists
    /\ read = "ok"
    /\ ig_file.complete
    /\ ~IsInvalid(JsonLoad(ig_file.text))
ProbeInputs(read) ==
    IF ReadsValid(read) THEN {"ok", "login_fails"} ELSE {"ok"}
RefreshedInputs(read, probe) ==
    IF ReadsValid(read) /\ probe = "ok"
    THEN LoginSettings(JsonLoad(ig_file.text))
    ELSE {EmptyBlob}
UnlinkInputs(read, probe) ==
    IF ig_file_exists /\ ~(ReadsValid(read) /\ probe = "ok")
    THEN {"ok", "unlink_fails"}
    ELSE {"ok"}

IG_load_session ==
    /\ IG_SessionReady
    /\ IG_Alive
    /\ \E read \in ReadInputs :
        \E probe \in ProbeInputs(read) :
            \E refreshed \in RefreshedInputs(read, probe),
               unlink \in UnlinkInputs(read, probe) :
                IG_Install("load_session",
                           LoadSession(IgState, read, probe, refreshed, unlink))

\* InstagramScraper.login: the stored session first, then a fresh login of up
\* to 3 attempts; fresh says whether one of them succeeds, blob is the
\* settings the client holds after it, io how far save_session gets
Login(st, read, probe, refreshed, unlink, fresh, blob, io) ==
    LET st0 == [st EXCEPT !.settings = EmptyBlob]
        loaded == LoadSession(st0, read, probe, refreshed, unlink)
    IN  IF loaded.ret = "True"
        THEN [loaded EXCEPT !.path = "stored"]
        ELSE IF fresh = "login_fails"
        THEN [loaded EXCEPT !.faults = @ \cup {"login"}, !.path = "fresh",
                            !.ret = "False"]
        ELSE LET saved == SaveSession([loaded EXCEPT !.settings = blob,
                                                     !.logged_in = TRUE,
                                                     !.authed = TRUE], io)
             IN  [saved EXCEPT !.path = "fresh",
                               !.ret = IF saved.ret = "crashed"
                                       THEN "crashed" ELSE "True"]

\* the settings a fresh login leaves in the client, and how far the
\* save_session after it gets.  Where the process ends before its memory is
\* read again the settings make no difference: one blob stands for all.
SaveInputs(survived) ==
    {<<blob, io>> : blob \in Blobs, io \in {"ok"} \cup survived}
    \cup {<<EmptyBlob, io>> :
             io \in {"open_fails", "write_fails", "crash"} \ survived}

IG_login ==
    /\ IG_SessionReady
    /\ IG_Alive
    /\ \E read \in ReadInputs :
        \E probe \in ProbeInputs(read) :
            \E refreshed \in RefreshedInputs(read, probe),
               unlink \in UnlinkInputs(read, probe) :
                IF ReadsValid(read) /\ probe = "ok"
                THEN IG_Install("login",
                                Login(IgState, read, probe, refreshed, unlink,
                                      "ok", EmptyBlob, "ok"))
                ELSE \/ IG_Install("login",
                                   Login(IgState, read, probe, refreshed, unlink,
                                         "login_fails", EmptyBlob, "ok"))
                     \/ \E sv \in SaveInputs({"open_fails", "write_fails"}) :
                           IG_Install("login",
                                      Login(IgState, read, probe, refreshed,
                                            unlink, "ok", sv[1], sv[2]))

\* InstagramScraper.__init__: a new client with no settings, not logged in
NewScraper(st) ==
    [st EXCEPT !.settings = EmptyBlob, !.logged_in = FALSE, !.authed = FALSE]

\* a new InstagramScraper in a new process: the session file of earlier runs
\* stays on disk
IG_init ==
    /\ IG_SessionReady
    /\ ig_ops > 0
    /\ IG_Install("__init__", NewScraper(IgState))

\* main() of instagram_scraper.py: creds says whether INSTAGRAM_USERNAME and
\* INSTAGRAM_PASSWORD are set, unlink0 whether the unlink() of the first
\* clear_session works, logout what self.client.logout does; the other
\* inputs are those of login.  The scraping calls between login and logout do
\* not touch the session.
Main(st, creds, unlink0, read, probe, refreshed, unlink, fresh, blob, io, logout) ==
    IF creds = "missing"
    THEN [NewScraper(st) EXCEPT !.ret = "exited"]
    ELSE LET cleared == ClearSession(NewScraper(st), unlink0)
             logged == Login(cleared, read, probe, refreshed, unlink, fresh,
                             blob, io)
         IN  IF logged.ret = "crashed"
             THEN logged
             ELSE IF ~logged.logged_in
             THEN [logged EXCEPT !.ret = "exited"]
             ELSE IF logout = "logout_fails"
             THEN [logged EXCEPT !.faults = @ \cup {"logout"},
                                 !.ret = "exited"]
             ELSE [logged EXCEPT !.logged_in = FALSE, !.ret = "exited"]

\* one run of the script: it starts when no earlier run is still going
IG_main ==
    /\ IG_SessionReady
    /\ ig_ops = 0 \/ ~IG_Alive
    /\ \/ IG_Install("main", Main(IgState, "missing", "ok", "ok", "ok",
                                  EmptyBlob, "ok", "ok", EmptyBlob, "ok", "ok"))
       \/ /\ ig_file_exists
          /\ \E read \in ReadInputs :
              \E probe \in ProbeInputs(read) :
                \E refreshed \in RefreshedInputs(read, probe),
                   unlink \in UnlinkInputs(read, probe),
                   logout \in {"ok", "logout_fails"} :
                    IF ReadsValid(read) /\ probe = "ok"
                    THEN IG_Install("main",
                                    Main(IgState, "given", "unlink_fails", read,
                                         probe, refreshed, unlink, "ok",
                                         EmptyBlob, "ok", logout))
                    ELSE \E fresh \in {"ok", "login_fails"}, sv \in SaveInputs({}) :
                           /\ (fresh = "login_fails" =>
                                  sv = <<EmptyBlob, "ok">> /\ logout = "ok")
                           /\ IG_Install("main",
                                         Main(IgState, "given", "unlink_fails",
                                              read, probe, refreshed, unlink,
                                              fresh, sv[1], sv[2], logout))
       \/ \E fresh \in {"ok", "login_fails"}, sv \in SaveInputs({}),
             logout \in {"ok", "logout_fails"} :
             /\ (fresh = "login_fails" =>
                    sv = <<EmptyBlob, "ok">> /\ logout = "ok")
             /\ IG_Install("main",
                           Main(IgState, "given", "ok", "ok", "ok", EmptyBlob,
                                "ok", fresh, sv[1], sv[2], logout))

\* InstagramScraper.logout; logout says what self.client.logout() does
Logout(st, logout) ==
    IF ~st.logged_in
    THEN [st EXCEPT !.authed = FALSE, !.ret = "None"]
    ELSE IF logout = "logout_fails"
    THEN [st EXCEPT !.faults = @ \cup {"logout"}, !.authed = FALSE,
                    !.ret = "None"]
    ELSE [st EXCEPT !.logged_in = FALSE, !.authed = FALSE, !.ret = "None"]

IG_logout ==
    /\ IG_SessionReady
    /\ IG_Alive
    /\ \E logout \in {"ok", "logout_fails"} :
        /\ (~ig_logged_in => logout = "ok")
        /\ IG_Install("logout", Logout(IgState, logout))

\* ---------------------------------------------------------------- fetching
\* the fetch methods of InstagramScraper
FetchMethods == {"get_user_info", "get_user_media", "get_media_comments",
                 "get_hashtag_media", "search_users"}
\* what a fetch method returns when it has nothing: None or []
FetchEmpty(method) == IF method = "get_user_info" THEN "None" ELSE "[]"
\* get_user_media first calls self.client.user_id_from_username, unwrapped
FetchLooksUp(method) == method = "get_user_media"
\* the methods that call random_delay once more for every item returned
FetchDelaysPerItem(method) == method \in {"get_user_media", "get_hashtag_media"}

\* no fetch method called yet
NoFetch == [method |-> "none", trace |-> <<>>, vendor |-> 0, error |-> "none",
            authed |-> FALSE]

\* one call of fetch method `method`: the session state after it, the record
\* of the handle_rate_limit call it made and what it did.  lookup is what
\* user_id_from_username does, outcomes what the wrapped vendor call does on
\* each invocation, items the number of items it returns.
Fetch(method, st, lookup, outcomes, jitters, items) ==
    LET none == [NoFetch EXCEPT !.method = method, !.authed = st.authed]
    IN  IF ~st.logged_in
        THEN [st |-> [st EXCEPT !.ret = FetchEmpty(method)], run |-> NoRun,
              fetch |-> none]
        ELSE IF FetchLooksUp(method) /\ lookup # "ok"
        THEN [st |-> [st EXCEPT !.ret = FetchEmpty(method)], run |-> NoRun,
              fetch |-> [none EXCEPT !.trace = <<"random_delay", "lookup">>,
                                     !.vendor = 1, !.error = lookup]]
        ELSE LET pre == IF FetchLooksUp(method)
                        THEN <<"random_delay", "lookup">> ELSE <<>>
                 run == HandleRateLimit(NoRun, 0, outcomes, jitters)
                 trace == pre \o <<"random_delay">> \o run.trace
                 vendor == Len(pre) \div 2 + run.calls
             IN  IF run.result = "ok"
                 THEN [st |-> [st EXCEPT !.ret =
                                  IF method # "get_user_info" /\ items = 0
                                  THEN "[]" ELSE "data"],
                       run |-> run,
                       fetch |-> [none EXCEPT
                                    !.trace = trace \o
                                       (IF FetchDelaysPerItem(method)
                                        THEN [i \in 1..items |-> "random_delay"]
                                        ELSE <<>>),
                                    !.vendor = vendor]]
                 ELSE [st |-> [st EXCEPT !.ret = FetchEmpty(method)],
                       run |-> run,
                       fetch |-> [none EXCEPT !.trace = trace,
                                              !.vendor = vendor,
                                              !.error = run.error]]

\* what a wrapped vendor call can be seen to do: rate-limit errors, then a
\* result or an error of another kind
FetchOutcomeSeqs ==
    {o \in UNION {[1..n -> IgOutcomes] : n \in 1..IgMaxRetries} :
        /\ \A i \in 1..(Len(o) - 1) : o[i] = "RateLimitError"
        /\ Len(o) < IgMaxRetries => Last(o) # "RateLimitError"}

\* one call of a fetch method.  The session operations are explored before
\* the first fetch only.
IG_fetch ==
    /\ IG_SessionReady
    /\ IG_Alive
    /\ ig_fetch = NoFetch
    /\ \E method \in FetchMethods :
        \E lookup \in (IF ig_logged_in /\ FetchLooksUp(method)
                       THEN {"ok", "UserNotFound", "LoginRequired"}
                       ELSE {"ok"}) :
        \E outcomes \in (IF ig_logged_in /\ lookup = "ok"
                         THEN FetchOutcomeSeqs
                         ELSE {<<"ok">>}) :
        \E jitter \in (IF Len(outcomes) > 1 THEN Uniform(0, IgJitter) ELSE {0}),
           items \in (IF ig_logged_in /\ lookup = "ok" /\ Last(outcomes) = "ok"
                         /\ method # "get_user_info"
                      THEN 0..MaxItems ELSE {0}) :
            LET r == Fetch(method, IgState, lookup, outcomes,
                           [i \in 1..IgMaxRetries |-> jitter], items)
            IN  /\ IG_Install(method, r.st)
                /\ ig_fetch' = r.fetch
                /\ ig_run' = r.run
                /\ ig_runs' = ig_runs + (IF r.run = NoRun THEN 0 ELSE 1)
                /\ ig_outcomes' = IF r.run = NoRun THEN <<>> ELSE outcomes

IG_Init ==
    /\ IG_SessionInit
    /\ ig_runs = 0
    /\ ig_outcomes = <<>>
    /\ ig_run = NoRun
    /\ ig_fetch = NoFetch

\* what the wrapped operation can do over the invocations of one call
IgOutcomeSeqs == {Observable(o) : o \in [1..IgMaxRetries -> IgOutcomes]}

\* one call of InstagramScraper.handle_rate_limit.  It neither reads nor
\* writes the session state, so it is explored from the initial session state
\* only, and the session operations from the initial wrapper state only.
IG_handle_rate_limit ==
    /\ script = "instagram"
    /\ ig_runs < MaxRuns
    /\ ig_ops = 0
    /\ \E outcomes \in IgOutcomeSeqs,
          jitters \in [1..IgMaxRetries -> Uniform(0, IgJitter)] :
        /\ ig_run' = HandleRateLimit(NoRun, 0, outcomes, jitters)
        /\ ig_outcomes' = outcomes
    /\ ig_runs' = ig_runs + 1
    /\ UNCHANGED <<ig_session_vars, ig_fetch>>

\* ================================================================ system
Init ==
    /\ script \in Scripts
    /\ LI_Init
    /\ LI_SessionInit
    /\ TW_Init
    /\ FB_Init
    /\ HM_Init
    /\ fb_job = NoJob
    /\ sm = NoCollect
    /\ px = NewProxyManager(<<>>)
    /\ db_manager = InitDatabase
    /\ IG_Init

Next ==
    \/ LI_rate_limit /\ UNCHANGED <<script, part_vars, hm_vars, job_vars, li_session_vars, tw_vars, fb_vars, ig_vars>>
    \/ TW_rate_limit_delay /\ UNCHANGED <<script, part_vars, hm_vars, job_vars, li_all, fb_vars, ig_vars>>
    \/ TW_handle_errors /\ UNCHANGED <<script, part_vars, hm_vars, job_vars, li_all, fb_vars, ig_vars>>
    \/ FB_handle_request_with_retry /\ UNCHANGED <<script, part_vars, hm_vars, job_vars, li_all, tw_vars, ig_vars>>
    \/ FB_record_success /\ UNCHANGED <<script, part_vars, hm_vars, job_vars, li_all, tw_vars, ig_vars>>
    \/ FB_record_failure /\ UNCHANGED <<script, part_vars, hm_vars, job_vars, li_all, tw_vars, ig_vars>>
    \/ FB_get_stats /\ UNCHANGED <<script, part_vars, hm_vars, job_vars, li_all, tw_vars, ig_vars>>
    \/ FB_log_health_report /\ UNCHANGED <<script, part_vars, hm_vars, job_vars, li_all, tw_vars, ig_vars>>
    \/ IG_handle_rate_limit /\ UNCHANGED <<script, part_vars, hm_vars, job_vars, li_all, tw_vars, fb_vars>>
    \/ IG_save_session /\ UNCHANGED <<script, part_vars, hm_vars, job_vars, li_all, tw_vars, fb_vars, ig_retry_vars, ig_fetch>>
    \/ IG_clear_session /\ UNCHANGED <<script, part_vars, hm_vars, job_vars, li_all, tw_vars, fb_vars, ig_retry_vars, ig_fetch>>
    \/ IG_load_session /\ UNCHANGED <<script, part_vars, hm_vars, job_vars, li_all, tw_vars, fb_vars, ig_retry_vars, ig_fetch>>
    \/ IG_login /\ UNCHANGED <<script, part_vars, hm_vars, job_vars, li_all, tw_vars, fb_vars, ig_retry_vars, ig_fetch>>
    \/ IG_init /\ UNCHANGED <<script, part_vars, hm_vars, job_vars, li_all, tw_vars, fb_vars, ig_retry_vars, ig_fetch>>
    \/ IG_main /\ UNCHANGED <<script, part_vars, hm_vars, job_vars, li_all, tw_vars, fb_vars, ig_retry_vars, ig_fetch>>
    \/ LI_init /\ UNCHANGED <<script, part_vars, hm_vars, job_vars, li_vars, tw_vars, fb_vars, ig_vars>>
    \/ LI_save_session /\ UNCHANGED <<script, part_vars, hm_vars, job_vars, li_vars, tw_vars, fb_vars, ig_vars>>
    \/ LI_load_session /\ UNCHANGED <<script, part_vars, hm_vars, job_vars, li_vars, tw_vars, fb_vars, ig_vars>>
    \/ LI_authenticate /\ UNCHANGED <<script, part_vars, hm_vars, job_vars, li_vars, tw_vars, fb_vars, ig_vars>>

Spec == Init /\ [][Next]_vars

\* ---- the HealthMonitor of a default FacebookScraper shared by workers
InitWorkers ==
    /\ Init
    /\ script = "facebook"
    /\ fb_retry_attempts = FbDefaultAttempts
    /\ fb_retry_backoff = FbDefaultBackoff

NextWorkers ==
    \E w \in Workers :
        \/ HM_success_read(w) /\ UNCHANGED <<script, part_vars, job_vars, li_all, tw_vars, ig_vars>>
        \/ HM_success_write(w) /\ UNCHANGED <<script, part_vars, job_vars, li_all, tw_vars, ig_vars>>
        \/ HM_success_stamp(w) /\ UNCHANGED <<script, part_vars, job_vars, li_all, tw_vars, ig_vars>>
        \/ HM_failure_read(w) /\ UNCHANGED <<script, part_vars, job_vars, li_all, tw_vars, ig_vars>>
        \/ HM_failure_write(w) /\ UNCHANGED <<script, part_vars, job_vars, li_all, tw_vars, ig_vars>>

SpecWorkers == InitWorkers /\ [][NextWorkers]_vars

\* ---- the LinkedIn rate limiter under every configuration, the degenerate
\* ones included
InitDegenerate ==
    /\ script = "linkedin"
    /\ LI_InitWith(DegenerateLimits \cup (1..MaxLimit),
                   DegenerateRanges \cup {<<LiMinDelay, LiMaxDelay>>})
    /\ LI_SessionInit
    /\ TW_Init
    /\ FB_Init
    /\ HM_Init
    /\ fb_job = NoJob
    /\ sm = NoCollect
    /\ px = NewProxyManager(<<>>)
    /\ db_manager = InitDatabase
    /\ IG_Init

NextDegenerate ==
    LI_rate_limit /\ UNCHANGED <<script, part_vars, hm_vars, job_vars, li_session_vars, tw_vars,
                                 fb_vars, ig_vars>>

SpecDegenerate == InitDegenerate /\ [][NextDegenerate]_vars

\* ---- the calls a job makes through the wrappers: the fetch methods of the
\* Instagram script on every session state a login followed by logout and
\* clear_session calls leads to, and handle_errors of the Twitter script
InitCalls ==
    /\ Init
    /\ script \in {"instagram", "twitter"}

NextCalls ==
    \/ IG_login /\ ig_ops = 0 /\ UNCHANGED <<script, part_vars, hm_vars, job_vars, li_all, tw_vars, fb_vars, ig_retry_vars, ig_fetch>>
    \/ IG_logout /\ ig_fetch = NoFetch /\ UNCHANGED <<script, part_vars, hm_vars, job_vars, li_all, tw_vars, fb_vars, ig_retry_vars, ig_fetch>>
    \/ IG_clear_session /\ ig_fetch = NoFetch /\ UNCHANGED <<script, part_vars, hm_vars, job_vars, li_all, tw_vars, fb_vars, ig_retry_vars, ig_fetch>>
    \/ IG_fetch /\ UNCHANGED <<script, part_vars, hm_vars, job_vars, li_all, tw_vars, fb_vars>>
    \/ TW_handle_errors /\ UNCHANGED <<script, part_vars, hm_vars, job_vars, li_all, fb_vars, ig_vars>>

SpecCalls == InitCalls /\ [][NextCalls]_vars

\* ---- the jobs: main() of run_fb_scraper.py over the configured targets,
\* with no retry at all or the default three attempts, and the collect calls
\* of the Reddit and YouTube collectors
InitJob ==
    /\ script \in {"facebook", "social_media"}
    /\ LI_Init
    /\ LI_SessionInit
    /\ TW_Init
    /\ FB_Init
    /\ fb_retry_attempts \in {0, FbDefaultAttempts}
    /\ fb_retry_backoff = FbDefaultBackoff
    /\ HM_Init
    /\ fb_job = NoJob
    /\ sm = NoCollect
    /\ px = NewProxyManager(<<>>)
    /\ db_manager = InitDatabase
    /\ IG_Init

NextJob ==
    \/ FB_main /\ UNCHANGED <<script, part_vars, hm_vars, sm, li_all, tw_vars, ig_vars>>
    \/ FB_scrape_target /\ UNCHANGED <<script, part_vars, hm_vars, sm, li_all, tw_vars, ig_vars>>
    \/ FB_finish /\ UNCHANGED <<script, part_vars, hm_vars, sm, li_all, tw_vars, ig_vars>>
    \/ SM_reddit_collect /\ UNCHANGED <<script, part_vars, hm_vars, li_all, tw_vars, fb_vars, ig_vars>>
    \/ SM_youtube_collect /\ UNCHANGED <<script, part_vars, hm_vars, li_all, tw_vars, fb_vars, ig_vars>>

SpecJob == InitJob /\ [][NextJob]_vars

\* ---- the parts of the scripts on their own: the coroutines of the Twitter
\* script in rate_limit_delay, health_check of the LinkedIn script after
\* _rate_limit calls, the ProxyManager of the Facebook script and the
\* DatabaseManager of the collectors
InitParts ==
    /\ script \in {"linkedin", "twitter", "facebook", "social_media"}
    /\ LI_Init
    /\ LI_SessionInit
    /\ TW_Init
    /\ FB_Init
    /\ HM_Init
    /\ fb_job = NoJob
    /\ sm = NoCollect
    /\ px = NewProxyManager(<<>>)
    /\ db_manager = InitDatabase
    /\ IG_Init

NextParts ==
    \/ LI_rate_limit /\ li_status = NoStatus /\ UNCHANGED <<script, part_vars, hm_vars, job_vars, li_session_vars, tw_vars, fb_vars, ig_vars>>
    \/ LI_health_check /\ li_status = NoStatus /\ UNCHANGED <<script, hm_vars, job_vars, li_session_vars, tw_vars, fb_vars, ig_vars>>
    \/ \E t \in Tasks :
          \/ TW_task_call(t) /\ UNCHANGED <<script, hm_vars, job_vars, li_all, fb_vars, ig_vars>>
          \/ TW_task_reset(t) /\ UNCHANGED <<script, hm_vars, job_vars, li_all, fb_vars, ig_vars>>
          \/ TW_task_admit(t) /\ UNCHANGED <<script, hm_vars, job_vars, li_all, fb_vars, ig_vars>>
    \/ PX_init /\ UNCHANGED <<script, hm_vars, job_vars, li_all, tw_vars, fb_vars, ig_vars>>
    \/ PX_get_next_proxy /\ UNCHANGED <<script, hm_vars, job_vars, li_all, tw_vars, fb_vars, ig_vars>>
    \/ DB_save_post /\ UNCHANGED <<script, hm_vars, job_vars, li_all, tw_vars, fb_vars, ig_vars>>

SpecParts == InitParts /\ [][NextParts]_vars

\* ================================================================ claims

\* C1: in LinkedInScraper._rate_limit the number of recorded request
\* timestamps inside any trailing 3600-second window (ending now or at any
\* recorded slot) never exceeds max_requests_per_hour.
C1_WindowCeiling ==
    /\ InWindow(li_recorded, li_now, LiHour) <= li_max_requests_per_hour
    /\ \A i \in 1..Len(li_recorded) :
          InWindow(li_recorded, li_recorded[i], LiHour) <= li_max_requests_per_hour

\* a call was held at the ceiling and the window is full again afterwards
C1_Witness ==
    /\ li_blocked
    /\ Len(li_recorded) > li_max_requests_per_hour
    /\ InWindow(li_recorded, li_now, LiHour) = li_max_requests_per_hour

\* C8: a _rate_limit call that finds max_requests_per_hour slots in the window
\* sleeps 3600 - (now - oldest slot), so its own slot is recorded no earlier
\* than 3600 seconds after the oldest retained slot.
C8_BlocksFullWindow ==
    li_blocked =>
        /\ li_sleep = LiHour - (li_t0 - li_oldest)
        /\ li_request_times[1] = li_oldest
        /\ Last(li_request_times) >= li_oldest + LiHour

\* max = 2, three back-to-back calls: the third one is held
C8_Witness ==
    /\ li_max_requests_per_hour = 2
    /\ Len(li_recorded) = 3
    /\ li_blocked
    /\ li_sleep > 0
    /\ li_recorded[3] >= li_recorded[1] + LiHour
\* C2: TwitterScraper.rate_limit_delay permits no more than
\* max_requests_per_hour requests inside any 3600-second interval.
C2_HourlyCeiling ==
    \A i \in 1..Len(tw_permits) :
        InWindow(tw_permits, tw_permits[i], TwHour) <= tw_max_requests_per_hour
\* C3: in InstagramScraper.handle_rate_limit, when the first attempt fails
\* with an error that is not a rate-limit error, the operation is invoked
\* exactly once, no sleep occurs and that error propagates.
C3_FatalFirstAttempt ==
    (ig_run.result # "none" /\ ig_outcomes[1] \in IgErrors \ {"RateLimitError"}) =>
        /\ ig_run.calls = 1
        /\ ig_run.sleeps = <<>>
        /\ ig_run.trace = <<"call">>
        /\ ig_run.result = "raised"
        /\ ig_run.error = ig_outcomes[1]

C3_Witness ==
    /\ ig_run.result = "raised"
    /\ ig_outcomes[1] = "UserNotFound"
    /\ ig_run.error = "UserNotFound"
    /\ ig_run.calls = 1

\* C4: in FacebookScraper._handle_request_with_retry and
\* TwitterScraper.handle_errors a Fatal failure is surfaced immediately:
\* the invocation that failed with it is the last one.
FatalNotRetried(run, outcomes) ==
    \A i \in 1..Len(outcomes) :
        (i <= run.calls /\ outcomes[i] = "Fatal") =>
            /\ run.calls = i
            /\ run.result = "raised"
            /\ run.error = "Fatal"
C4_FatalSurfacedImmediately ==
    /\ FatalNotRetried(fb_run, fb_outcomes)
    /\ FatalNotRetried(tw_run, tw_outcomes)

\* the delays retry_backoff * 2^0 .. retry_backoff * 2^(k-1)
Backoffs(backoff, k) == [i \in 1..k |-> backoff * Pow2(i - 1)]
\* k failed invocations, each followed by a sleep, then one more invocation
RetryTrace(k) ==
    [i \in 1..(2 * k + 1) |-> IF i % 2 = 1 THEN "call" ELSE "sleep"]

\* C5: FacebookScraper._handle_request_with_retry, k < retry_attempts failures
\* then a success: the success is returned after exactly k+1 invocations and
\* exactly k sleeps of retry_backoff*2^0, ..., retry_backoff*2^(k-1), in order.
C5_BackoffThenSuccess ==
    \A k \in 0..MaxAttempts :
        (/\ fb_run.result # "none"
         /\ k < fb_retry_attempts
         /\ FirstOk(fb_outcomes) = k + 1) =>
            /\ fb_run.result = "ok"
            /\ fb_run.from = k + 1
            /\ fb_run.calls = k + 1
            /\ fb_run.sleeps = Backoffs(fb_retry_backoff, k)
            /\ fb_run.trace = RetryTrace(k)

C5_Witness ==
    /\ fb_retry_attempts = 3
    /\ fb_outcomes = <<"Transient", "Fatal", "ok">>
    /\ fb_run.result = "ok"
    /\ fb_run.sleeps = <<fb_retry_backoff, 2 * fb_retry_backoff>>

\* every one of the first n invocations fails
AllFail(outcomes, n) ==
    /\ Len(outcomes) >= n
    /\ \A i \in 1..n : outcomes[i] \in Errors

Exhausted(run, outcomes, n) ==
    /\ run.calls = n
    /\ Len(run.sleeps) = n - 1
    /\ Last(run.trace) = "call"
    /\ run.result = "raised"
    /\ run.from = n
    /\ run.error = outcomes[n]

\* C6: when every attempt fails and retry_attempts >= 1, the Facebook and
\* Twitter retry wrappers invoke the operation exactly retry_attempts times,
\* do not sleep after the last failed attempt and raise the last error.
C6_RetryExhaustion ==
    /\ (fb_run.result # "none" /\ fb_retry_attempts >= 1
        /\ AllFail(fb_outcomes, fb_retry_attempts))
            => Exhausted(fb_run, fb_outcomes, fb_retry_attempts)
    /\ (tw_run.result # "none" /\ tw_retry_attempts >= 1
        /\ AllFail(tw_outcomes, tw_retry_attempts))
            => Exhausted(tw_run, tw_outcomes, tw_retry_attempts)

C6_Witness ==
    /\ fb_retry_attempts = 3
    /\ fb_outcomes = <<"Fatal", "Fatal", "Transient">>
    /\ fb_run.calls = 3
    /\ fb_run.error = "Transient"

\* C7: InstagramScraper.handle_rate_limit with an operation that always
\* raises RateLimitError: 3 invocations, two sleeps of 30*2^0 + j and
\* 30*2^1 + j' (j, j' in [0,10]) between them, then the RateLimitError is
\* raised with no sleep after the third failure.
C7_PermanentRateLimit ==
    (/\ ig_run.result # "none"
     /\ \A i \in 1..IgMaxRetries : ig_outcomes[i] = "RateLimitError") =>
        /\ ig_run.calls = 3
        /\ ig_run.trace = <<"call", "sleep", "call", "sleep", "call">>
        /\ Len(ig_run.sleeps) = 2
        /\ ig_run.sleeps[1] - IgBaseDelay \in 0..IgJitter
        /\ ig_run.sleeps[2] - 2 * IgBaseDelay \in 0..IgJitter
        /\ ig_run.result = "raised"
        /\ ig_run.error = "RateLimitError"

C7_Witness ==
    /\ ig_outcomes = <<"RateLimitError", "RateLimitError", "RateLimitError">>
    /\ ig_run.result = "raised"
    /\ ig_run.sleeps = <<IgBaseDelay + IgJitter, 2 * IgBaseDelay>>
\* C9: after save_session succeeds, a following load_session with no
\* intervening clear_session leaves the client with a blob equal to the saved
\* one (passed to set_settings, or held already), for every blob; stated for
\* the calls that meet no I/O or login failure.
C9_RoundTripEveryBlob ==
    (ig_op = "load_session" /\ ig_was_fresh /\ ig_faults = {}) =>
        \/ ig_installed = <<ig_saved>>
        \/ ig_installed = <<>> /\ ig_settings = ig_saved

\* C9 as amended: the saved blob is installed exactly when it is non-empty
\* and has a 'cookies' field, and load_session then returns True iff the login
\* probe succeeds; any other blob is not installed and load_session returns
\* False.
C9_RoundTripValidBlob ==
    (ig_op = "load_session" /\ ig_was_fresh /\ "read" \notin ig_faults) =>
        IF ig_saved = EmptyBlob \/ "cookies" \notin DOMAIN ig_saved
        THEN ig_installed = <<>> /\ ig_ret = "False"
        ELSE /\ ig_installed = <<ig_saved>>
             /\ (ig_ret = "True" <=> "probe" \notin ig_faults)
             /\ (ig_ret = "True" => ig_logged_in)

C9_Witness ==
    /\ ig_op = "load_session"
    /\ ig_was_fresh
    /\ ig_saved = [f \in Fields |-> IF f = "cookies" THEN "v2" ELSE "v1"]
    /\ ig_installed = <<ig_saved>>
    /\ ig_ret = "True"

\* C10: after clear_session the session file is absent (when unlink() did
\* its work), the client settings are empty and logged_in is False; a
\* load_session that follows returns False; a second clear_session changes
\* nothing.
C10_ClearIsIdempotentInvalidate ==
    [][ /\ (ig_ops' # ig_ops /\ ig_op' = "clear_session") =>
              /\ ("unlink" \notin ig_faults' => ~ig_file_exists')
              /\ ig_settings' = EmptyBlob
              /\ ~ig_logged_in'
        /\ (ig_ops' # ig_ops /\ ig_op = "clear_session"
            /\ ig_op' = "load_session") => ig_ret' = "False"
        /\ (ig_ops' # ig_ops /\ ig_op = "clear_session"
            /\ ig_op' = "clear_session") =>
              UNCHANGED <<ig_file_exists, ig_file, ig_settings, ig_logged_in>>
      ]_vars

\* C11: a save that meets no I/O error but may stop at any point leaves the
\* session file either as it was before the call or holding the complete new
\* blob, never a truncated one (InstagramScraper.save_session,
\* LinkedInScraper._save_session).
C11_SaveIsAtomic ==
    /\ (ig_op = "save_session" /\ ig_faults = {}) =>
          \/ [exists |-> ig_file_exists, file |-> ig_file] = ig_before
          \/ ig_file_exists /\ ig_file.complete
    /\ (li_op = "_save_session" /\ li_faults = {}) =>
          \/ [exists |-> li_file_exists, file |-> li_file] = li_before
          \/ li_file_exists /\ li_file.complete

\* C12: a load of an absent or structurally invalid session (Instagram: empty
\* or without 'cookies'; LinkedIn: unreadable pickle) reports "no session",
\* and afterwards no session file and no in-memory session or authenticated
\* state remains.
C12_InvalidLoadClears ==
    /\ (/\ ig_op = "load_session"
        /\ \/ ~ig_before.exists
           \/ ~ig_before.file.complete
           \/ DOMAIN JsonLoad(ig_before.file.text) = {}
           \/ "cookies" \notin DOMAIN JsonLoad(ig_before.file.text)) =>
          /\ ig_ret = "False"
          /\ ~ig_file_exists
          /\ ig_settings = EmptyBlob
          /\ ~ig_logged_in
    /\ (/\ li_op = "_load_session"
        /\ ~li_before.exists \/ ~li_before.file.complete) =>
          /\ li_ret \in {"None", "False"}
          /\ ~li_file_exists
          /\ li_linkedin = NoLinkedin

\* C13: no failure of a read, write or delete of the session file escapes
\* save_session, load_session, clear_session, login (Instagram) or
\* _save_session, _load_session, authenticate (LinkedIn); a load that met one
\* returns False, and login / authenticate then goes on to the fresh login.
C13_SessionErrorsContained ==
    /\ ~ig_propagated
    /\ ~li_propagated
    /\ (ig_op = "load_session" /\ ig_faults # {}) => ig_ret = "False"
    /\ (li_op = "_load_session" /\ li_faults # {}) => li_ret = "False"
    /\ (ig_op = "login" /\ ig_faults \cap {"read", "unlink", "probe"} # {}) =>
          ig_path = "fresh"
    /\ (li_op = "authenticate" /\ li_faults # {}) =>
          li_path \in {"fresh", "no_credentials"}

\* the stored LinkedIn session is rejected, os.remove fails, and authenticate
\* still logs in afresh
C13_Witness ==
    /\ li_op = "authenticate"
    /\ li_faults = {"probe", "remove"}
    /\ li_file_exists
    /\ li_path = "fresh"
    /\ li_ret = "True"

\* C14: a job that starts with a valid session file of an earlier successful
\* login on disk, and meets no failure, authenticates from that file: it
\* neither deletes the file nor logs in with the credentials (main of the
\* Instagram script, LinkedInScraper.authenticate).
C14_SessionReuse ==
    /\ (/\ ig_op = "main"
        /\ ig_path # "none"
        /\ ig_was_fresh
        /\ "cookies" \in DOMAIN JsonLoad(ig_before.file.text)
        /\ ig_faults = {}) =>
          /\ ig_path = "stored"
          /\ ig_file_exists
          /\ ig_file = ig_before.file
    /\ (/\ li_op = "authenticate"
        /\ li_was_stored
        /\ li_faults = {}) =>
          /\ li_path = "stored"
          /\ li_file_exists
          /\ li_file = li_before.file

\* C15: get_stats after n record_success and m record_failure calls reports
\* total_requests = n + m and success_rate = n/(n+m)*100 rounded to 2
\* decimals (here in hundredths of a percent: the hundredth nearest to
\* n*10000/(n+m)), and 0 when n + m = 0.
C15_SuccessRate ==
    LET n == fb_seen.n
        m == fb_seen.m
        off == fb_stats.success_rate * (n + m) - n * 10000
    IN  /\ fb_stats.total_requests = n + m
        /\ fb_stats.successful_requests = n
        /\ fb_stats.failed_requests = m
        /\ n + m = 0 => fb_stats.success_rate = 0
        /\ n + m > 0 => /\ 2 * off <= n + m
                        /\ 2 * (0 - off) <= n + m

\* two successes and one failure: 66.67
C15_Witness ==
    /\ fb_op = "get_stats"
    /\ fb_seen = [n |-> 2, m |-> 1]
    /\ fb_stats.total_requests = 3
    /\ fb_stats.success_rate = 6667

\* C16: get_stats and log_health_report leave successful_requests,
\* failed_requests, start_time and last_success_time as they were, and a
\* get_stats that follows another with no record call between them reports
\* the same counts.
C16_StatsAreReadOnly ==
    [][ /\ fb_reports' # fb_reports => fb_health' = fb_health
        /\ (fb_reports' # fb_reports /\ fb_op = "get_stats"
            /\ fb_op' = "get_stats") =>
              /\ fb_stats'.successful_requests = fb_stats.successful_requests
              /\ fb_stats'.failed_requests = fb_stats.failed_requests
              /\ fb_stats'.total_requests = fb_stats.total_requests
      ]_vars

\* both methods were called after a success and a failure were recorded
C16_Witness ==
    /\ fb_reports = 2
    /\ fb_op = "get_stats"
    /\ fb_logged # <<>>
    /\ fb_health.successful_requests = 1
    /\ fb_health.failed_requests = 1
    /\ fb_health.last_success_time # NoTime
    /\ fb_stats.total_requests = 2

\* C17: every invocation made by _handle_request_with_retry is followed by
\* exactly one of record_success and record_failure: the two counters add up
\* to the invocations made (plus the record calls made outside the wrapper),
\* and successful_requests counts the wrapper calls that returned a result.
C17_OneRecordPerAttempt ==
    /\ fb_health.successful_requests + fb_health.failed_requests
          = fb_invocations + fb_succ_calls + fb_fail_calls
    /\ fb_health.successful_requests = fb_returned + fb_succ_calls

\* two wrapper calls: three failures, then two failures and a success
C17_Witness ==
    /\ fb_runs = 2
    /\ fb_invocations = 6
    /\ fb_returned = 1
    /\ fb_health.failed_requests = 5
    /\ fb_succ_calls + fb_fail_calls = 0

\* C18: when workers interleave record_success / record_failure calls on one
\* HealthMonitor, once all of them are done the counters equal the numbers
\* of calls made.
C18_NoLostUpdate ==
    (\A w \in Workers : hm_pc[w] = "idle") =>
        /\ fb_health.successful_requests = hm_started.success
        /\ fb_health.failed_requests = hm_started.failure

\* C19: LinkedInScraper._rate_limit never raises, whatever the configuration
\* (limits <= 0 and min_delay > max_delay included), the call history and the
\* progression of the clock.
C19_AcquireNeverFails == ~li_raised

\* C20: every call of LinkedInScraper._rate_limit and of
\* TwitterScraper.rate_limit_delay suspends the caller for at least min_delay
\* before the slot is recorded, and two slots recorded one after the other
\* are at least min_delay apart.
C20_DelayEveryCall ==
    /\ (li_calls > 0 /\ ~li_raised) => li_now - li_t0 >= li_min_delay
    /\ \A i \in 1..(Len(li_recorded) - 1) :
          li_recorded[i + 1] - li_recorded[i] >= li_min_delay
    /\ tw_calls > 0 => tw_now - tw_last_request_time >= TwMinDelay
    /\ \A i \in 1..(Len(tw_permits) - 1) :
          tw_permits[i + 1] - tw_permits[i] >= TwMinDelay

\* the ceilings a deployment may configure for the rate-limit backoff
\* (rate_limit_backoff_cap): at least the first backoff with its jitter
RateLimitBackoffCaps == {IgBaseDelay + IgJitter, 2 * IgBaseDelay + IgJitter}

\* C21: every sleep of InstagramScraper.handle_rate_limit after a rate-limit
\* error is at most the configured ceiling, whatever ceiling is configured
\* and whatever the attempt number.
C21_BackoffCapped ==
    \A cap \in RateLimitBackoffCaps :
        \A i \in 1..Len(ig_run.sleeps) : ig_run.sleeps[i] <= cap

\* C28: in TwitterScraper.handle_errors the sleep after failed attempt i
\* (1-based) is at least retry_delay * 2^(i-1), and every later sleep is
\* strictly longer than every earlier one.
C28_BackoffGrows ==
    /\ \A i \in 1..Len(tw_run.sleeps) :
          tw_run.sleeps[i] >= TwRetryDelay * Pow2(i - 1)
    /\ \A i \in 1..Len(tw_run.sleeps) : \A j \in 1..Len(tw_run.sleeps) :
          i < j => tw_run.sleeps[i] < tw_run.sleeps[j]

\* C30: in TwitterScraper request_count never exceeds max_requests_per_hour,
\* whatever the sequence of rate_limit_delay calls and the gaps between them.
C30_CountWithinLimit == tw_request_count <= tw_max_requests_per_hour

\* C22: when a fetch of the Instagram script fails with LoginRequired, the
\* session file is deleted and logged_in is False afterwards, what the caller
\* gets differs from the None / [] of an ordinary empty or failed fetch, and
\* the call that met the error was the last one made.
C22_AuthExpiryInvalidates ==
    ig_fetch.error = "LoginRequired" =>
        /\ ~ig_file_exists
        /\ ~ig_logged_in
        /\ ig_ret \notin {"None", "[]"}
        /\ ig_run # NoRun => ig_run.calls = Len(ig_outcomes)

\* C27: no fetch method of the Instagram script calls the vendor client
\* unless a login attempt has succeeded and no logout or clear_session has
\* happened since; otherwise it returns None / [] without a vendor call.
C27_VendorOnlyWhenAuthed ==
    ig_fetch.method # "none" =>
        /\ ig_fetch.vendor > 0 => ig_fetch.authed
        /\ ~ig_fetch.authed => ig_ret = FetchEmpty(ig_fetch.method)

\* the positions of `x` in `seq`
Positions(seq, x) == {i \in DOMAIN seq : seq[i] = x}

\* C29: a call through a wrapper takes its rate-limit slot once, before the
\* first attempt of the operation, and retries take none: handle_errors
\* calls rate_limit_delay once per call, and in the Instagram fetch methods
\* one random_delay precedes the first attempt of the wrapped call and none
\* lies between its attempts.
C29_OneSlotPerCall ==
    /\ tw_run.calls > 0 =>
          /\ tw_run.trace[1] = "rate_limit_delay"
          /\ Cardinality(Positions(tw_run.trace, "rate_limit_delay")) = 1
    /\ LET t == ig_fetch.trace
           calls == Positions(t, "call")
       IN  /\ \A i \in Positions(t, "lookup") : i > 1 /\ t[i - 1] = "random_delay"
           /\ calls # {} =>
                 LET first == CHOOSE i \in calls : \A j \in calls : i <= j
                     last == CHOOSE i \in calls : \A j \in calls : i >= j
                 IN  /\ first > 1 /\ t[first - 1] = "random_delay"
                     /\ \A i \in first..last : t[i] # "random_delay"

\* C23: main() of run_fb_scraper.py prints the final statistics (the number
\* of posts scraped, the success rate and the runtime of the health monitor)
\* however scrape_all_targets ends: normally, with an exception or with a
\* KeyboardInterrupt
C23_FinalStatisticsAlways ==
    fb_job.pc = "done" =>
        /\ fb_job.path \in {"normal", "exception", "interrupted"}
        /\ fb_job.report =
              <<Len(fb_job.scraped_data),
                GetStats(fb_health, fb_now - FbTick).stats.success_rate,
                (fb_now - FbTick) - fb_health.start_time>>

C23_Witness ==
    /\ fb_job.pc = "done"
    /\ fb_job.path = "interrupted"
    /\ Len(fb_job.scraped_data) > 0
    /\ fb_health.failed_requests > 0

\* the records a collect call built before the first exception of `events`
RECURSIVE BuiltBefore(_, _, _)
BuiltBefore(platform, events, i) ==
    IF i > Len(events) \/ events[i] = "error" THEN <<>>
    ELSE <<(<<platform, i>>)>> \o BuiltBefore(platform, events, i + 1)

InOutputFile(job, post) ==
    \E f \in DOMAIN job.files :
        \E i \in 1..Len(job.files[f]) : job.files[f][i] = post

\* C25: when the Facebook job is interrupted (KeyboardInterrupt in a delay
\* sleep, a backoff sleep or the network call), every post collected up to
\* that point, those of the target in progress included, is saved to an
\* output file
C25_CancellationKeepsPartial ==
    (fb_job.pc = "done" /\ fb_job.path = "interrupted") =>
        \A i \in 1..Len(fb_job.collected) :
            InOutputFile(fb_job, fb_job.collected[i])

\* the configured targets in the order of config.json: pages, then groups
ConfiguredTargets(job) == [i \in 1..(job.pages + job.groups) |-> TargetAt(job, i - 1)]

\* the posts written to the files of the first n targets, in order
RECURSIVE ConcatTargetFiles(_, _)
ConcatTargetFiles(job, n) ==
    IF n = 0 THEN <<>>
    ELSE ConcatTargetFiles(job, n - 1)
         \o (IF TargetAt(job, n - 1) \in DOMAIN job.files
             THEN job.files[TargetAt(job, n - 1)] ELSE <<>>)

C35_ReturnOrRaise ==
    /\ fb_runs > 0 =>
          /\ fb_run.result \in {"ok", "raised"}
          /\ fb_run.calls >= 1
    /\ tw_runs > 0 =>
          /\ tw_run.result \in {"ok", "raised"}
          /\ tw_run.calls >= 1

\* C34: InstagramScraper.login never raises and its return value agrees
\* with the logged_in flag after any sequence of login, logout,
\* clear_session and save failures: logged_in is True after login returned
\* True and False after it returned False, and it returns True only when a
\* client.login call succeeded in it
C34_LoginAgreesWithFlag ==
    (ig_op = "login" /\ ig_ret \in {"True", "False"}) =>
        /\ ~ig_propagated
        /\ ig_ret = "True" => (ig_logged_in /\ "login" \notin ig_faults)
        /\ ig_ret = "False" => ~ig_logged_in

\* C33: self.linkedin of LinkedInScraper is non-None only if authentication
\* succeeded: whenever authenticate last returned False, self.linkedin is
\* None, so that get_profile, search_people and get_company refuse with
\* 'Not authenticated' instead of calling the vendor client
C33_ClientOnlyWhenAuthenticated ==
    (li_op = "authenticate" /\ li_ret = "False") => li_linkedin = NoLinkedin

\* C32: the 'requests_last_hour' value LinkedInScraper.health_check reports
\* is at most max_requests_per_hour and counts only the request timestamps
\* less than 3600 seconds older than the moment of the health check
C32_RequestsLastHour ==
    li_status.has_requests_last_hour =>
        /\ li_status.requests_last_hour <= li_max_requests_per_hour
        /\ li_status.requests_last_hour
              = InWindow(li_request_times, li_status.timestamp, LiHour)

\* C31: when two or more coroutines run handle_errors on one TwitterScraper
\* and interleave at the awaits of rate_limit_delay, the number of
\* operations admitted between two resets of request_count is at most
\* max_requests_per_hour, and no increment of request_count is lost
C31_CeilingAcrossCoroutines ==
    /\ tw_tasks.admitted <= tw_max_requests_per_hour
    /\ tw_request_count = tw_tasks.admitted

\* the call tested proxy p and the test passed
PassedTest(call, p) ==
    \E k \in 1..Len(call.tested) : call.tested[k] = p /\ call.passed[k]

\* C36: ProxyManager.get_next_proxy returns only healthy proxies: a proxy it
\* returns passed _test_proxy during that same call and is not in
\* failed_proxies; it returns None exactly when proxy_list is empty
C36_OnlyHealthyProxies ==
    px.calls > 0 =>
        /\ px.last.ret # 0 =>
              /\ PassedTest(px.last, px.last.ret)
              /\ px.last.ret \notin px.failed_proxies
        /\ px.last.ret = 0 <=> px.proxy_list = <<>>

\* the proxies of the list
ListedProxies(pm) == {pm.proxy_list[i] : i \in 1..Len(pm.proxy_list)}

\* C37: the round-robin state of ProxyManager: for a non-empty list
\* 0 <= current_index < len(proxy_list), and failed_proxies is a subset of
\* proxy_list; a get_next_proxy call examines at most len(proxy_list)
\* entries, in cyclic list order starting at current_index, tests each
\* proxy at most once, and neither tests nor returns a proxy that was
\* already in failed_proxies before the set is reset
C37_RoundRobinState ==
    LET n == Len(px.proxy_list)
        call == px.last
    IN  /\ n > 0 => (0 <= px.current_index /\ px.current_index < n)
        /\ px.failed_proxies \subseteq ListedProxies(px)
        /\ px.calls > 0 =>
              /\ Len(call.examined) <= n
              /\ \A k \in 1..Len(call.examined) :
                    call.examined[k] = px.proxy_list[((call.from + k - 1) % n) + 1]
              /\ \A j, k \in 1..Len(call.tested) :
                    call.tested[j] = call.tested[k] => j = k
              /\ \A k \in 1..Len(call.tested) :
                    call.tested[k] \notin call.failed_before
              /\ (call.ret # 0 /\ ~call.cleared) =>
                    call.ret \notin call.failed_before
              /\ n > 0 => px.current_index = (call.from + Len(call.examined)) % n

C37_Witness ==
    /\ px.calls > 1
    /\ px.last.from > 0
    /\ px.last.failed_before # {}
    /\ Len(px.last.examined) = Len(px.proxy_list)
    /\ Len(px.last.tested) < Len(px.last.examined)
    /\ px.last.ret # 0
    /\ ~px.last.cleared

\* C38: DatabaseManager.save_post is an all-or-nothing upsert: after any
\* sequence of save_post calls the posts table holds exactly one row per
\* distinct id saved, with the values of the most recent successful save of
\* that id; a save that hits a database error leaves the posts table and
\* the platform tables unchanged and does not raise
C38_AllOrNothingUpsert ==
    /\ DOMAIN db_manager.posts = DOMAIN db_manager.saved
    /\ \A id \in DOMAIN db_manager.posts :
          db_manager.posts[id] = [platform |-> db_manager.saved[id].platform,
                                  value |-> db_manager.saved[id].value]
    /\ (db_manager.calls > 0 /\ db_manager.fault \in DatabaseErrors) =>
          /\ db_manager.posts = db_manager.before.posts
          /\ db_manager.reddit_posts = db_manager.before.reddit_posts
          /\ db_manager.youtube_videos = db_manager.before.youtube_videos
          /\ ~db_manager.raised

C38_Witness ==
    /\ db_manager.calls = MaxOps
    /\ db_manager.fault = "platform"
    /\ \E id \in DOMAIN db_manager.posts :
          /\ db_manager.posts[id].value = 2
          /\ id \in DOMAIN db_manager.reddit_posts
          /\ id \in DOMAIN db_manager.youtube_videos

\* C39: after any sequence of save_post calls with RedditPost and
\* YouTubeVideo values, two posts of different platforms that share an id
\* included, every row of reddit_posts has a posts row with the same id and
\* platform 'reddit', every row of youtube_videos one with platform
\* 'youtube', and no id is in both platform tables
C39_CrossTableConsistency ==
    /\ \A id \in DOMAIN db_manager.reddit_posts :
          /\ id \in DOMAIN db_manager.posts
          /\ db_manager.posts[id].platform = "reddit"
    /\ \A id \in DOMAIN db_manager.youtube_videos :
          /\ id \in DOMAIN db_manager.posts
          /\ db_manager.posts[id].platform = "youtube"
    /\ DOMAIN db_manager.reddit_posts \cap DOMAIN db_manager.youtube_videos = {}
====
